---- MODULE Spec2Model ----
(***************************************************************************)
(* Matching engine of the REG-NMS inspired order book: MatchingEngine      *)
(* (core/matching_engine.py), OrderBook (core/order_book.py), Order        *)
(* (core/order.py) and WriteAheadLog (persistence/wal.py).                 *)
(*                                                                         *)
(* Python objects are modelled by value: an Order object that rests in a   *)
(* book lives in the heap `objs` under a handle; the level queues and the  *)
(* id index of a book both hold handles, as the Python deque and dict both *)
(* hold references to the same object.  Decimal prices and quantities are  *)
(* exact, so they are modelled by integers.  A Python method becomes an    *)
(* operator from the engine record (and arguments) to a record with the    *)
(* new engine record, the returned value and the exception raised, if any. *)
(* The message of an exception is carried without its interpolated values. *)
(***************************************************************************)
EXTENDS Integers, Sequences, FiniteSets, TLC

\* ------------------------------------------------------------------ bounds
MaxWal == 1
MaxResting == 2
MaxInFlight == 2
RingSize == 3
MaxFill == 3
MaxPushed == 4
MaxRegistered == 2

\* --------------------------------------------------------------- constants
\* Python None for an optional Decimal (price of a MARKET order, a key that
\* a response dict does not carry)
None == -1
\* a price given as a value that Python takes as false without its being
\* None: the number 0 (int, float or Decimal) or the empty string, where a
\* price given as the string "0" is the integer 0 of the model
FalsyPrice == -3

Symbols == {"BTC-USDT", "ETH-USDT"}
BookSymbols == {"BTC-USDT"}
ClientIds == {"a", "b", "c", "d"}
\* order_data without an "order_id" key
NoId == ""
\* an id as generated by Order.__init__ : "ORD-<epoch>-<6 hex>"
GenId == "ORD-1"

Prices == {1, 2}
Quantities == {1, 2}

\* ----------------------------------------------------------------- helpers
EmptyDict == [k \in {} |-> 0]
Put(d, k, v) == [x \in (DOMAIN d) \cup {k} |-> IF x = k THEN v ELSE d[x]]
Del(d, k) == [x \in (DOMAIN d) \ {k} |-> d[x]]
Min(S) == CHOOSE x \in S : \A y \in S : x <= y
Max(S) == CHOOSE x \in S : \A y \in S : x >= y
MinOf(a, b) == IF a <= b THEN a ELSE b
\* the element of a one-element set
Only(S) == CHOOSE x \in S : TRUE

\* C10 mutant: the head of the queue leaves it, whatever x is (popleft)
DequeRemoveHead(q, x) == IF q = <<>> THEN <<>> ELSE Tail(q)

\* deque.remove(x): removes the first occurrence of x
RECURSIVE DequeRemove(_, _)
DequeRemove(q, x) ==
    IF q = <<>> THEN <<>>
    ELSE IF Head(q) = x THEN Tail(q)
    ELSE <<Head(q)>> \o DequeRemove(Tail(q), x)

\* ------------------------------------------------------------------- Order
\* core/order.py  Order.__init__
Order(order_id) ==
    [order_id |-> IF order_id = NoId THEN GenId ELSE order_id,
     symbol |-> "", side |-> "", type |-> "", price |-> None,
     quantity |-> 0, remaining_qty |-> 0, filled_qty |-> 0,
     status |-> "pending"]

\* Order.initialize: assigns first, validates afterwards
initialize(o, symbol, side, order_type, quantity, price) ==
    LET o1 == [o EXCEPT !.symbol = symbol, !.side = side, !.type = order_type,
                        !.quantity = quantity, !.remaining_qty = quantity,
                        !.price = price]
    IN  IF order_type = "market" /\ price # None
        THEN [order |-> o1, raised |-> "Market orders cannot have a price"]
        ELSE IF order_type # "market" /\ price = None
        THEN [order |-> o1, raised |-> "Limit orders must have a price"]
        ELSE IF quantity <= 0
        THEN [order |-> o1, raised |-> "Quantity must be positive"]
        ELSE [order |-> o1, raised |-> ""]

\* Order.fill
\* a fill that does not compare the quantity with what remains
fill_unchecked(o, quantity, price) ==
    LET o1 == [o EXCEPT !.filled_qty = @ + quantity,
                        !.remaining_qty = @ - quantity]
    IN [order |-> [o1 EXCEPT !.status = IF o1.remaining_qty = 0
                                        THEN "filled" ELSE "partial"],
        raised |-> ""]

fill(o, quantity, price) ==
    IF quantity > o.remaining_qty
    THEN [order |-> o, raised |-> "Cannot fill"]
    ELSE LET o1 == [o EXCEPT !.filled_qty = @ + quantity,
                             !.remaining_qty = @ - quantity]
         IN [order |-> [o1 EXCEPT !.status = IF o1.remaining_qty = 0
                                             THEN "filled" ELSE "partial"],
             raised |-> ""]

\* Order.cancel
cancel(o) ==
    IF o.status \in {"filled", "cancelled", "rejected"}
    THEN [order |-> o, raised |-> "Cannot cancel order"]
    ELSE [order |-> [o EXCEPT !.status = "cancelled"], raised |-> ""]

\* C4 mutant: a rejected order is left marked as partially filled
reject_partial(o) == [o EXCEPT !.status = "partial"]

\* Order.reject
reject(o) == [o EXCEPT !.status = "rejected"]

\* Order.reset: every field as Order.__init__ leaves it, and no order_id
\* (None is "" for the fields that hold strings)
reset(o) ==
    [order_id |-> "", symbol |-> "", side |-> "", type |-> "",
     price |-> None, quantity |-> 0, remaining_qty |-> 0, filled_qty |-> 0,
     status |-> "pending"]

\* Order.to_dict, with the keys the engine adds to it (avg_fill_price in
\* _handle_remaining_quantity, cancelled_quantity in cancel_order) and the
\* "error" key of the rejection dict; a key a dict does not carry is None / "".
\* "price": str(self.price) if self.price else None
to_dict(o) ==
    [order_id |-> o.order_id, symbol |-> o.symbol, side |-> o.side,
     order_type |-> o.type,
     price |-> IF o.price # None /\ o.price # 0 THEN o.price ELSE None,
     quantity |-> o.quantity, filled_quantity |-> o.filled_qty,
     remaining_quantity |-> o.remaining_qty, status |-> o.status,
     avg_fill_price |-> <<>>, cancelled_quantity |-> None, error |-> ""]

\* an except branch that raises again instead of returning: the caller gets
\* no dict
ErrorRaised(order_id, error) ==
    [order_id |-> "", symbol |-> "", side |-> "", order_type |-> "",
     price |-> None, quantity |-> None, filled_quantity |-> None,
     remaining_quantity |-> None, status |-> "", avg_fill_price |-> <<>>,
     cancelled_quantity |-> None, error |-> ""]

\* the dict returned by submit_order's except branch
ErrorResponse(order_id, error) ==
    [order_id |-> IF order_id = NoId THEN "UNKNOWN" ELSE order_id,
     symbol |-> "", side |-> "", order_type |-> "", price |-> None,
     quantity |-> None, filled_quantity |-> None,
     remaining_quantity |-> None, status |-> "rejected",
     avg_fill_price |-> <<>>, cancelled_quantity |-> None, error |-> error]

\* no dict was returned (nothing called yet, or the call raised)
NoResponse ==
    [order_id |-> "", symbol |-> "", side |-> "", order_type |-> "",
     price |-> None, quantity |-> None, filled_quantity |-> None,
     remaining_quantity |-> None, status |-> "", avg_fill_price |-> <<>>,
     cancelled_quantity |-> None, error |-> ""]

NoOrder == Order("-")

\* --------------------------------------------------------------- OrderBook
\* OrderBook.__init__ : two SortedDict price -> deque, the id index, the
\* BBO cache
OrderBook(symbol) ==
    [symbol |-> symbol, bids |-> EmptyDict, asks |-> EmptyDict,
     orders |-> EmptyDict, bbo_dirty |-> TRUE,
     cached_bbo |-> [best_bid |-> None, best_ask |-> None]]

\* OrderBook.add_order(order); h is the reference to the order object, which
\* the caller has placed in the heap.  Returns the book, the order object
\* (its status is set to OPEN) and the exception raised.
add_order(book, order, h) ==
    IF order.order_id \in DOMAIN book.orders
    THEN [book |-> book, order |-> order, raised |-> "Order already exists"]
    ELSE LET isBuy == order.side = "buy"
             side == IF isBuy THEN book.bids ELSE book.asks
             price == order.price
             side1 == IF price \notin DOMAIN side
                      THEN Put(side, price, <<>>) ELSE side
             side2 == [side1 EXCEPT ![price] = Append(@, h)]
         IN [book |-> [book EXCEPT !.orders = Put(@, order.order_id, h),
                                   !.bids = IF isBuy THEN side2 ELSE @,
                                   !.asks = IF isBuy THEN @ ELSE side2,
                                   !.bbo_dirty = TRUE],
             order |-> [order EXCEPT !.status = "open"],
             raised |-> ""]

\* a remove_order that takes the order out of the id index and leaves it in
\* its price level
remove_order_from_index(book, heap, order_id) ==
    IF order_id \notin DOMAIN book.orders
    THEN [book |-> book, removed |-> 0]
    ELSE [book |-> [book EXCEPT !.orders = Del(@, order_id),
                                !.bbo_dirty = TRUE],
          removed |-> book.orders[order_id]]

\* a remove_order that takes the order out of its price level and leaves it
\* in the id index
remove_order_from_level(book, heap, order_id) ==
    IF order_id \notin DOMAIN book.orders
    THEN [book |-> book, removed |-> 0]
    ELSE LET h == book.orders[order_id]
             order == heap[h]
             isBuy == order.side = "buy"
             side == IF isBuy THEN book.bids ELSE book.asks
             price == order.price
             side1 == IF price \in DOMAIN side
                      THEN LET q == DequeRemove(side[price], h)
                           IN IF Len(q) = 0 THEN Del(side, price)
                              ELSE [side EXCEPT ![price] = q]
                      ELSE side
         IN [book |-> [book EXCEPT !.bids = IF isBuy THEN side1 ELSE @,
                                   !.asks = IF isBuy THEN @ ELSE side1,
                                   !.bbo_dirty = TRUE],
             removed |-> h]

\* a remove_order that takes the order out of its queue and leaves the
\* emptied price level in the book
remove_order_keeps_level(book, heap, order_id) ==
    IF order_id \notin DOMAIN book.orders
    THEN [book |-> book, removed |-> 0]
    ELSE LET h == book.orders[order_id]
             order == heap[h]
             price == order.price
             b1 == IF order.side = "buy"
                   THEN IF price \in DOMAIN book.bids
                        THEN [book EXCEPT !.bids[price] = DequeRemove(@, h)]
                        ELSE book
                   ELSE IF price \in DOMAIN book.asks
                        THEN [book EXCEPT !.asks[price] = DequeRemove(@, h)]
                        ELSE book
         IN [book |-> [b1 EXCEPT !.orders = Del(@, order_id),
                                 !.bbo_dirty = TRUE],
             removed |-> h]

\* OrderBook.remove_order(order_id); heap is read to find the side and price
\* of the indexed order.  removed is the handle returned, 0 for None.
remove_order(book, heap, order_id) ==
    IF order_id \notin DOMAIN book.orders
    THEN [book |-> book, removed |-> 0]
    ELSE LET h == book.orders[order_id]
             order == heap[h]
             isBuy == order.side = "buy"
             side == IF isBuy THEN book.bids ELSE book.asks
             price == order.price
             side1 == IF price \in DOMAIN side
                      THEN LET q == DequeRemove(side[price], h)
                           IN IF Len(q) = 0 THEN Del(side, price)
                              ELSE [side EXCEPT ![price] = q]
                      ELSE side
         IN [book |-> [book EXCEPT !.orders = Del(@, order_id),
                                   !.bids = IF isBuy THEN side1 ELSE @,
                                   !.asks = IF isBuy THEN @ ELSE side1,
                                   !.bbo_dirty = TRUE],
             removed |-> h]

\* OrderBook.get_order: the handle of the indexed order, 0 for None
get_order(book, order_id) ==
    IF order_id \in DOMAIN book.orders THEN book.orders[order_id] ELSE 0

\* ---------------------------------------------------------- WriteAheadLog
\* a log_order_submission that writes nothing
log_nothing(e, order) == e

\* what is left in the file of a line whose write failed part-way: text
\* that json.loads refuses, with no newline after it
Fragment == [type |-> "fragment", data |-> None]

\* a line that ends with a newline and that json.loads refuses: text written
\* onto what a failed write had left
Glued == [type |-> "glued", data |-> None]

\* the whole text of an entry, left by a write that failed at the newline
Unterminated(entry) == [type |-> "unterminated", data |-> entry]

\* the last line of the file w has no newline after it
NoNewline(w) == w # <<>> /\ w[Len(w)].type \in {"fragment", "unterminated"}

\* the file w with text appended: kept is what the file keeps of the text,
\* and the text goes onto the last line when that line has no newline
Write(w, kept) ==
    IF ~NoNewline(w) THEN Append(w, kept)
    ELSE [w EXCEPT ![Len(w)] = IF kept.type \in {"fragment", "unterminated"}
                               THEN Fragment ELSE Glued]

\* WriteAheadLog._write_entry: open(filepath, "a") and write() of the
\* entry's text and a newline.  The file takes the line; or open() or
\* write() raises, with nothing of the line in the file, with part of its
\* text or with all of its text and no newline, and the except branch
\* prints the error and returns, so that the caller goes on
_write_entry(e, entry) ==
    CASE e.writable = "line" -> [e EXCEPT !.wal = Write(@, entry)]
      [] e.writable = "text" ->
            [e EXCEPT !.wal = Write(@, Unterminated(entry)),
                      !.write_errors = @ + 1]
      [] e.writable = "part" ->
            [e EXCEPT !.wal = Write(@, Fragment), !.write_errors = @ + 1]
      [] e.writable = "nothing" -> [e EXCEPT !.write_errors = @ + 1]

\* WriteAheadLog.replay without since_timestamp: json.loads of every line
\* of the file, which raises on the first line that is not JSON text; a
\* last line without a newline is read like any other
replay(w) ==
    IF \E k \in 1..Len(w) : w[k].type \in {"fragment", "glued"}
    THEN [entries |-> <<>>, raised |-> "JSONDecodeError"]
    ELSE [entries |-> [k \in 1..Len(w) |->
                         IF w[k].type = "unterminated" THEN w[k].data
                         ELSE w[k]],
          raised |-> ""]

\* WriteAheadLog.log_order_submission
log_order_submission(e, order) ==
    _write_entry(e,
        [type |-> "ORDER_SUBMIT",
         data |-> [order_id |-> order.order_id, symbol |-> order.symbol,
                   side |-> order.side, order_type |-> order.type,
                   price |-> IF order.price # None /\ order.price # 0
                             THEN order.price ELSE None,
                   quantity |-> order.quantity]])

\* WriteAheadLog.log_trade
log_trade(e, trade) ==
    _write_entry(e,
        [type |-> "TRADE_EXECUTE",
         data |-> [trade_id |-> trade.trade_id, symbol |-> trade.symbol,
                   price |-> trade.price, quantity |-> trade.quantity,
                   maker_order_id |-> trade.maker_order_id,
                   taker_order_id |-> trade.taker_order_id]])

\* WriteAheadLog.log_order_cancel (no method of the engine calls it)
log_order_cancel(e, order_id) ==
    _write_entry(e,
        [type |-> "ORDER_CANCEL", data |-> [order_id |-> order_id]])

\* ----------------------------------------------------------- FeeCalculator
\* fee_tiers["default"], in thousandths
maker_fee == 1
taker_fee == 2
\* FeeCalculator.calculate_fees: fee_amount = price * quantity * fee_rate
\* (in thousandths); Order has no client_tier, so the tier is "default"
calculate_fees(price, quantity, is_maker) ==
    price * quantity * (IF is_maker THEN maker_fee ELSE taker_fee)

\* ---------------------------------------------------------- MatchingEngine
OrderTypes == {"market", "limit", "ioc", "fok"}
Sides == {"buy", "sell"}

\* self.order_books[symbol]: position of the symbol's book in the dict
\* (a dict keeps insertion order), 0 when the key is absent
BookIndex(order_books, symbol) ==
    IF \E i \in 1..Len(order_books) : order_books[i].symbol = symbol
    THEN CHOOSE i \in 1..Len(order_books) : order_books[i].symbol = symbol
    ELSE 0

\* MatchingEngine.initialize_symbol
initialize_symbol(e, symbol) ==
    IF BookIndex(e.order_books, symbol) = 0
    THEN [e EXCEPT !.order_books = Append(@, OrderBook(symbol))]
    ELSE e

\* the spellings of a side or an order type that str.lower() takes to it:
\* each letter in lower case or in capitals
Spellings(word) ==
    CASE word = "buy" ->
           {"BUY", "BUy", "BuY", "Buy", "bUY", "bUy", "buY", "buy"}
      [] word = "sell" ->
           {"SELL", "SELl", "SElL", "SEll", "SeLL", "SeLl", "SelL", "Sell",
            "sELL", "sELl", "sElL", "sEll", "seLL", "seLl", "selL", "sell"}
      [] word = "market" ->
           {"MARKET", "MARKEt", "MARKeT", "MARKet", "MARkET", "MARkEt",
            "MARkeT", "MARket", "MArKET", "MArKEt", "MArKeT", "MArKet",
            "MArkET", "MArkEt", "MArkeT", "MArket", "MaRKET", "MaRKEt",
            "MaRKeT", "MaRKet", "MaRkET", "MaRkEt", "MaRkeT", "MaRket",
            "MarKET", "MarKEt", "MarKeT", "MarKet", "MarkET", "MarkEt",
            "MarkeT", "Market", "mARKET", "mARKEt", "mARKeT", "mARKet",
            "mARkET", "mARkEt", "mARkeT", "mARket", "mArKET", "mArKEt",
            "mArKeT", "mArKet", "mArkET", "mArkEt", "mArkeT", "mArket",
            "maRKET", "maRKEt", "maRKeT", "maRKet", "maRkET", "maRkEt",
            "maRkeT", "maRket", "marKET", "marKEt", "marKeT", "marKet",
            "markET", "markEt", "markeT", "market"}
      [] word = "limit" ->
           {"LIMIT", "LIMIt", "LIMiT", "LIMit", "LImIT", "LImIt", "LImiT",
            "LImit", "LiMIT", "LiMIt", "LiMiT", "LiMit", "LimIT", "LimIt",
            "LimiT", "Limit", "lIMIT", "lIMIt", "lIMiT", "lIMit", "lImIT",
            "lImIt", "lImiT", "lImit", "liMIT", "liMIt", "liMiT", "liMit",
            "limIT", "limIt", "limiT", "limit"}
      [] word = "ioc" ->
           {"IOC", "IOc", "IoC", "Ioc", "iOC", "iOc", "ioC", "ioc"}
      [] word = "fok" ->
           {"FOK", "FOk", "FoK", "Fok", "fOK", "fOk", "foK", "fok"}
      [] OTHER -> {word}

\* str.lower on the side and the order type of a request: the word of the
\* two enums that the string spells, in whatever case; any other string
\* stays outside the enums, and is kept as it is
lower(s) ==
    IF \E w \in Sides \cup OrderTypes : s \in Spellings(w)
    THEN CHOOSE w \in Sides \cup OrderTypes : s \in Spellings(w)
    ELSE s

\* MatchingEngine._create_order_from_data: side and order_type are compared
\* in lower case (lines 126 and 135); a price that Python takes as false
\* (None, the number 0, the empty string) is read as no price (line 149)
_create_order_from_data(order_data) ==
    LET order == Order(order_data.order_id)
        side_str == lower(order_data.side)
        type_str == lower(order_data.order_type)
        price == IF order_data.price \in {None, FalsyPrice} THEN None
                 ELSE order_data.price
    IN  IF side_str \notin Sides
        THEN [order |-> order, raised |-> "Invalid side"]
        ELSE IF type_str \notin OrderTypes
        THEN [order |-> order, raised |-> "Invalid order type"]
        ELSE initialize(order, order_data.symbol, side_str, type_str,
                        order_data.quantity, price)

\* the lambdas price_check of _match_order
price_check(side, order_price, book_price) ==
    IF side = "buy" THEN order_price >= book_price
    ELSE order_price <= book_price

\* peekitem(0) for a BUY taker (lowest ask), peekitem(-1) for a SELL taker
BestPrice(side, opposing_book) ==
    IF side = "buy" THEN Min(DOMAIN opposing_book)
    ELSE Max(DOMAIN opposing_book)

\* _can_fill_completely, the for loop over one level's queue
RECURSIVE CanFillLevel(_, _, _)
CanFillLevel(heap, order_queue, remaining_qty) ==
    IF order_queue = <<>> \/ remaining_qty <= 0 THEN remaining_qty
    ELSE CanFillLevel(heap, Tail(order_queue),
            remaining_qty
              - MinOf(remaining_qty, heap[Head(order_queue)].remaining_qty))

\* _can_fill_completely, the while loop over the copied opposing side
RECURSIVE CanFillWalk(_, _, _, _)
CanFillWalk(heap, order, temp_opposing_book, remaining_qty) ==
    IF remaining_qty > 0 /\ DOMAIN temp_opposing_book # {}
    THEN LET best_price == BestPrice(order.side, temp_opposing_book)
         IN IF ~price_check(order.side, order.price, best_price)
            THEN FALSE
            ELSE LET r == CanFillLevel(heap, temp_opposing_book[best_price],
                                       remaining_qty)
                 IN CanFillWalk(heap, order,
                                IF r > 0 THEN Del(temp_opposing_book, best_price)
                                ELSE temp_opposing_book, r)
    ELSE remaining_qty = 0

\* MatchingEngine._can_fill_completely
_can_fill_completely(heap, order, opposing_book) ==
    IF order.type # "fok" THEN TRUE
    ELSE CanFillWalk(heap, order, opposing_book, order.remaining_qty)

\* MatchingEngine._generate_trade: the trade id carries trade_id_counter
_generate_trade(e, maker_order, taker_order, price, quantity) ==
    LET n == e.trade_id_counter + 1
        trade == [trade_id |-> n, symbol |-> maker_order.symbol,
                  price |-> price, quantity |-> quantity,
                  aggressor_side |-> taker_order.side,
                  maker_order_id |-> maker_order.order_id,
                  taker_order_id |-> taker_order.order_id,
                  maker_fee |-> calculate_fees(price, quantity, TRUE),
                  taker_fee |-> calculate_fees(price, quantity, FALSE)]
        e1 == [e EXCEPT !.trade_id_counter = n,
                        !.trade_history = Append(@, trade)]
    IN [eng |-> log_trade(e1, trade), trade |-> trade]

\* the name read at line 183 taken as bound to the opposing side
opposing_book_is_read == TRUE

\* matching_engine.py line 183 reads `len(oppsing_boook)`: the name is bound
\* nowhere (no local, no global, no builtin), so evaluating it raises
\* NameError
oppsing_boook_is_bound == FALSE

OpposingSide(book, side) == IF side = "buy" THEN book.asks ELSE book.bids

SetOpposingSide(book, side, d) ==
    IF side = "buy" THEN [book EXCEPT !.asks = d] ELSE [book EXCEPT !.bids = d]

\* _match_order, the inner while loop (lines 195-219) over the queue of
\* the level at best_price of book bi
RECURSIVE LevelLoop(_, _, _)
LevelLoop(w, bi, best_price) ==
    LET book == w.eng.order_books[bi]
        order_queue == OpposingSide(book, w.order.side)[best_price]
    IN  IF w.remaining_qty > 0 /\ Len(order_queue) > 0
        THEN LET h == Head(order_queue)
                 resting_order == w.eng.objs[h]
                 fill_qty == MinOf(w.remaining_qty, resting_order.remaining_qty)
                 g == _generate_trade(w.eng, resting_order, w.order,
                                      best_price, fill_qty)
                 f == fill(resting_order, fill_qty, best_price)
                 w1 == [w EXCEPT !.eng = g.eng,
                                 !.trades = Append(@, g.trade),
                                 !.remaining_qty = @ - fill_qty]
             IN IF f.raised # "" THEN [w1 EXCEPT !.raised = f.raised]
                ELSE LET popped == SetOpposingSide(book, w.order.side,
                                     [OpposingSide(book, w.order.side)
                                        EXCEPT ![best_price] = Tail(@)])
                         book1 == IF f.order.remaining_qty = 0
                                  THEN IF resting_order.order_id
                                            \in DOMAIN popped.orders
                                       THEN [popped EXCEPT !.orders =
                                               Del(@, resting_order.order_id)]
                                       ELSE popped
                                  ELSE book
                     IN LevelLoop([w1 EXCEPT !.eng.objs[h] = f.order,
                                             !.eng.order_books[bi] = book1],
                                  bi, best_price)
        ELSE w

\* C8 mutant: the walk matches nothing and raises nothing
MatchLoopNoFill(w, bi) == w

\* the opposing prices of book bi within the taker's limit
Within(w, bi) ==
    {p \in DOMAIN OpposingSide(w.eng.order_books[bi], w.order.side) :
        w.order.type = "market"
          \/ price_check(w.order.side, w.order.price, p)}

\* the best of them for the taker, and the worst
Nearest(w, bi) == BestPrice(w.order.side, [p \in Within(w, bi) |-> 0])
Farthest(w, bi) ==
    IF w.order.side = "buy" THEN Max(Within(w, bi)) ELSE Min(Within(w, bi))

\* the queue of book bi's opposing level at price
QueueAt(w, bi, price) ==
    OpposingSide(w.eng.order_books[bi], w.order.side)[price]

\* one trade of the walk with the name at line 183 bound (lines 199-210):
\* the taker trades quantity at price with the resting object h
OneFill(w, h, price, quantity) ==
    LET g == _generate_trade(w.eng, w.eng.objs[h], w.order, price, quantity)
    IN  [w EXCEPT !.eng = g.eng, !.trades = Append(@, g.trade),
                  !.remaining_qty = @ - quantity]

\* C1 mutant: the walk trades at the worst level within the limit
MatchLoopFarLevel(w, bi) ==
    IF Within(w, bi) = {} THEN w
    ELSE LET h == Head(QueueAt(w, bi, Farthest(w, bi)))
         IN OneFill(w, h, Farthest(w, bi),
                    MinOf(w.remaining_qty, w.eng.objs[h].remaining_qty))

\* C2 mutant: the walk trades with the last order of the best level
MatchLoopLastFirst(w, bi) ==
    IF Within(w, bi) = {} THEN w
    ELSE LET q == QueueAt(w, bi, Nearest(w, bi))
             h == q[Len(q)]
         IN OneFill(w, h, Nearest(w, bi),
                    MinOf(w.remaining_qty, w.eng.objs[h].remaining_qty))

\* C3 mutant: the walk trades at the taker's limit
MatchLoopTakerPrice(w, bi) ==
    IF Within(w, bi) = {} THEN w
    ELSE LET h == Head(QueueAt(w, bi, Nearest(w, bi)))
         IN OneFill(w, h,
                    IF w.order.type = "market" THEN Nearest(w, bi)
                    ELSE w.order.price,
                    MinOf(w.remaining_qty, w.eng.objs[h].remaining_qty))

\* C36 mutant: the walk trades the taker's whole quantity with the first
\* order it meets
MatchLoopOverfill(w, bi) ==
    IF Within(w, bi) = {} THEN w
    ELSE OneFill(w, Head(QueueAt(w, bi, Nearest(w, bi))), Nearest(w, bi),
                 w.remaining_qty)

\* C38 mutant: the walk's trade reaches the trade history and not the log
MatchLoopUnlogged(w, bi) ==
    IF Within(w, bi) = {} THEN w
    ELSE LET h == Head(QueueAt(w, bi, Nearest(w, bi)))
             f == OneFill(w, h, Nearest(w, bi),
                          MinOf(w.remaining_qty,
                                w.eng.objs[h].remaining_qty))
         IN [f EXCEPT !.eng.wal = w.eng.wal]

\* _match_order, the outer while loop (lines 183-226)
RECURSIVE MatchLoop(_, _)
MatchLoop(w, bi) ==
    IF ~(w.remaining_qty > 0) THEN w
    ELSE IF ~oppsing_boook_is_bound
    THEN [w EXCEPT !.raised = "name 'oppsing_boook' is not defined"]
    ELSE LET book == w.eng.order_books[bi]
             opposing_book == OpposingSide(book, w.order.side)
         IN IF DOMAIN opposing_book = {} THEN w
            ELSE LET best_price == BestPrice(w.order.side, opposing_book)
                 IN IF w.order.type # "market"
                       /\ ~price_check(w.order.side, w.order.price, best_price)
                    THEN w
                    ELSE LET w1 == LevelLoop(w, bi, best_price)
                             book1 == w1.eng.order_books[bi]
                             opp1 == OpposingSide(book1, w.order.side)
                             w2 == IF Len(opp1[best_price]) = 0
                                   THEN [w1 EXCEPT !.eng.order_books[bi] =
                                           SetOpposingSide(book1, w.order.side,
                                               Del(opp1, best_price))]
                                   ELSE w1
                         IN IF w1.raised # "" THEN w1 ELSE MatchLoop(w2, bi)

\* MatchingEngine._match_order: eng is the engine afterwards, order the
\* taker afterwards, trades the list returned
_match_order(e, order) ==
    LET bi == BookIndex(e.order_books, order.symbol)
        opposing_book == OpposingSide(e.order_books[bi], order.side)
        w0 == [eng |-> e, order |-> order,
               remaining_qty |-> order.remaining_qty,
               trades |-> <<>>, raised |-> ""]
    IN  IF order.type = "fok"
           /\ ~_can_fill_completely(e.objs, order, opposing_book)
        THEN [w0 EXCEPT !.order = reject(order)]
        ELSE LET w == MatchLoop(w0, bi)
             IN IF w.raised # "" THEN w
                ELSE [w EXCEPT !.order.remaining_qty = w.remaining_qty]

\* a free reference for a new resting object
NewHandle(heap) == Min({h \in 1..(Cardinality(DOMAIN heap) + 1) : h \notin DOMAIN heap})

\* sum of trade.quantity / of trade.price * trade.quantity over a trade list
RECURSIVE SumQty(_)
SumQty(trades) ==
    IF trades = <<>> THEN 0 ELSE Head(trades).quantity + SumQty(Tail(trades))

RECURSIVE SumNotional(_)
SumNotional(trades) ==
    IF trades = <<>> THEN 0
    ELSE Head(trades).price * Head(trades).quantity + SumNotional(Tail(trades))

\* a remainder policy that rests whatever remains, of any order type
_handle_remaining_rests(e, order, trades) ==
    LET bi == BookIndex(e.order_books, order.symbol)
        h == NewHandle(e.objs)
        a == add_order(e.order_books[bi], order, h)
        order1 == IF order.remaining_qty > 0
                  THEN [a.order EXCEPT !.status = "open"]
                  ELSE [order EXCEPT !.status = "filled"]
    IN  [eng |-> IF order.remaining_qty > 0 /\ a.raised = ""
                 THEN [e EXCEPT !.order_books[bi] = a.book,
                                !.objs = Put(@, h, order1)]
                 ELSE e,
         order |-> order1, response |-> to_dict(order1), raised |-> ""]

\* MatchingEngine._handle_remaining_quantity; the average fill price is the
\* exact quotient <<sum(price * quantity), sum(quantity)>>, <<>> for None
_handle_remaining_quantity(e, order, trades) ==
    LET bi == BookIndex(e.order_books, order.symbol)
        h == NewHandle(e.objs)
        a == add_order(e.order_books[bi], order, h)
        rested == [a.order EXCEPT !.status =
                      IF Len(trades) > 0 THEN "partial" ELSE "open"]
        order1 ==
            IF order.remaining_qty > 0
            THEN CASE order.type = "market" ->
                        IF Len(trades) = 0 THEN reject(order)
                        ELSE [order EXCEPT !.status = "partial"]
                   [] order.type = "ioc" ->
                        IF Len(trades) > 0
                        THEN [order EXCEPT !.status = "partial_fill_cancelled"]
                        ELSE reject(order)
                   [] order.type = "fok" -> reject(order)
                   [] order.type = "limit" -> rested
                   [] OTHER -> order
            ELSE [order EXCEPT !.status = "filled"]
        rests == order.remaining_qty > 0 /\ order.type = "limit"
        total_filled == SumQty(trades)
        avg_fill_price == IF total_filled > 0
                          THEN <<SumNotional(trades), total_filled>> ELSE <<>>
    IN  IF rests /\ a.raised # ""
        THEN [eng |-> e, order |-> order, response |-> NoResponse,
              raised |-> a.raised]
        ELSE [eng |-> IF rests
                      THEN [e EXCEPT !.order_books[bi] = a.book,
                                     !.objs = Put(@, h, order1)]
                      ELSE e,
              order |-> order1,
              response |-> [to_dict(order1) EXCEPT
                               !.avg_fill_price = avg_fill_price],
              raised |-> ""]

\* self.metrics of an engine whose __init__ has not come to assign it
NoMetrics ==
    [orders_processed |-> None, trades_executed |-> None,
     total_volume |-> None]

\* MatchingEngine.submit_order lines 95-99, after the value r of
\* _handle_remaining_quantity: reading self.metrics raises AttributeError
\* while the attribute does not exist, and the handler of submit_order
\* answers it with the rejection dict
update_metrics(r, trades, order_data) ==
    IF r.eng.metrics = NoMetrics
    THEN [eng |-> r.eng, order |-> r.order,
          response |-> ErrorResponse(order_data.order_id,
                         "'MatchingEngine' object has no attribute 'metrics'")]
    ELSE [eng |-> [r.eng EXCEPT
                     !.metrics.orders_processed = @ + 1,
                     !.metrics.trades_executed = @ + Len(trades),
                     !.metrics.total_volume = @ + SumQty(trades)],
          order |-> r.order, response |-> r.response]

\* the required_fields loop of submit_order: a key that order_data does not
\* carry is "" (symbol, order_type, side) or None (quantity)
MissingField(order_data) ==
    \/ order_data.symbol = ""
    \/ order_data.order_type = ""
    \/ order_data.side = ""
    \/ order_data.quantity = None

\* MatchingEngine.submit_order: every exception raised inside is turned into
\* the rejection dict; order is the Order object as the call leaves it
\* (NoOrder when none was created).  e1, c, m and r are the values of the
\* successive calls, each bound once it has been computed.
submit_order(e, order_data) ==
    IF MissingField(order_data)
    THEN [eng |-> e, order |-> NoOrder,
          response |-> ErrorResponse(order_data.order_id,
                                     "Missing required field")]
    ELSE
    Only({
        IF c.raised # ""
        THEN [eng |-> e1, order |-> NoOrder,
              response |-> ErrorResponse(order_data.order_id, c.raised)]
        ELSE
        Only({
            IF m.raised # ""
            THEN [eng |-> m.eng, order |-> m.order,
                  response |-> ErrorResponse(order_data.order_id, m.raised)]
            ELSE
            Only({
                IF r.raised # ""
                THEN [eng |-> r.eng, order |-> r.order,
                      response |-> ErrorResponse(order_data.order_id, r.raised)]
                ELSE update_metrics(r, m.trades, order_data)
              : r \in {_handle_remaining_quantity(m.eng, m.order, m.trades)}})
          : m \in {_match_order(log_order_submission(e1, c.order), c.order)}})
      : e1 \in {initialize_symbol(e, order_data.symbol)},
        c \in {_create_order_from_data(order_data)}})

\* MatchingEngine.cancel_order, the loop over self.order_books.values()
\* from position i on
RECURSIVE CancelScan(_, _, _)
CancelScan(e, order_id, i) ==
    IF i > Len(e.order_books)
    THEN [eng |-> e, response |-> NoResponse, raised |-> "Order not found"]
    ELSE
    LET book == e.order_books[i]
        h == get_order(book, order_id)
    IN  IF h = 0 THEN CancelScan(e, order_id, i + 1)
        ELSE IF e.objs[h].status \notin {"open", "partial"}
        THEN [eng |-> e, response |-> NoResponse,
              raised |-> "Cannot cancel order"]
        ELSE
        LET r == remove_order(book, e.objs, order_id)
            e1 == [e EXCEPT !.order_books[i] = r.book]
        IN  IF r.removed = 0 THEN CancelScan(e1, order_id, i + 1)
            ELSE
            LET c == cancel(e1.objs[r.removed])
            IN  IF c.raised # ""
                THEN [eng |-> e1, response |-> NoResponse, raised |-> c.raised]
                ELSE [eng |-> [e1 EXCEPT !.objs[r.removed] = c.order],
                      response |-> [to_dict(c.order) EXCEPT
                          !.cancelled_quantity = c.order.remaining_qty],
                      raised |-> ""]

\* MatchingEngine.cancel_order
cancel_order(e, order_id) == CancelScan(e, order_id, 1)

\* the references held by the books: the objects no book refers to are
\* garbage (a removed order lives on only in the dict returned to the caller)
RECURSIVE QueueHandles(_)
QueueHandles(d) ==
    IF DOMAIN d = {} THEN {}
    ELSE LET k == CHOOSE x \in DOMAIN d : TRUE
         IN {d[k][i] : i \in 1..Len(d[k])} \cup QueueHandles(Del(d, k))

IndexHandles(book) == {book.orders[k] : k \in DOMAIN book.orders}

Referenced(order_books) ==
    UNION {QueueHandles(order_books[i].bids) \cup QueueHandles(order_books[i].asks)
             \cup IndexHandles(order_books[i]) : i \in 1..Len(order_books)}

Collect(e) ==
    [e EXCEPT !.objs = [h \in (DOMAIN e.objs) \cap Referenced(e.order_books)
                          |-> e.objs[h]]]

\* ------------------------------------------------------------- ring buffer
\* the threads that use a RingBuffer, and the items they push
Threads == {1, 2}
Items == {1, 2}

\* RingBuffer.__init__(size); lock holds the thread inside a with self.lock
\* block, 0 when it is free
RingBuffer(size) ==
    [size |-> size, buffer |-> [i \in 0..(size - 1) |-> None],
     write_index |-> 0, read_index |-> 0, lock |-> 0]

\* a thread that is in no call of the buffer; after a call, op is the method
\* called, ok tells that push returned True or pop an item, and item is the
\* item pushed or popped
Idle == [pc |-> "idle", op |-> "none", item |-> None, next_index |-> None,
         ok |-> FALSE]

\* a lock that lets every thread in
acquire_unlocked(r) == TRUE

\* threading.Lock: with self.lock lets a thread in when no thread holds it
can_acquire(r) == r.lock = 0

\* ------------------------------------------------------- Order under test
\* no Order method has been called
NoSample == [order |-> NoOrder, before |-> NoOrder, op |-> "none",
             quantity |-> 0, raised |-> ""]

\* ------------------------------------------------------------------- state
VARIABLES
    order_books,        \* MatchingEngine.order_books, in insertion order
    objs,               \* the Order objects the books refer to
    wal,                \* the lines of data/wal/orders.log
    writable,           \* how much of a line appended to that file the
                        \* file takes: "line", "text", "part", "nothing"
    write_errors,       \* the "WAL write error" lines printed
    trade_history,      \* MatchingEngine.trade_history
    trade_id_counter,   \* MatchingEngine.trade_id_counter
    metrics,            \* MatchingEngine.metrics
    call,               \* the last call made: operation, argument, outcome
    response,           \* the dict the last call returned
    tasks,              \* the REST requests whose handler has not returned
    advanced_orders,    \* MatchingEngine.advanced_orders: symbol -> list
    conditional,        \* the count of conditional orders registered, and
                        \* the submit_order calls check_advanced_orders made
    sample,             \* an Order and the last method called on it
    ring,               \* a RingBuffer
    threads,            \* where each thread is in its push or pop
    transfers           \* the items pushed and popped, in the order of return

vars == <<order_books, objs, wal, writable, write_errors, trade_history,
          trade_id_counter, metrics,
          call, response, tasks, advanced_orders, conditional, sample, ring,
          threads, transfers>>

\* the conditional orders, the Order under test and the ring buffer, which
\* the engine's order path does not touch
aside == <<advanced_orders, conditional, sample, ring, threads, transfers>>

\* the engine as one record
Engine ==
    [order_books |-> order_books, objs |-> objs, wal |-> wal,
     writable |-> writable, write_errors |-> write_errors,
     trade_history |-> trade_history,
     trade_id_counter |-> trade_id_counter,
     metrics |-> metrics]

\* the engine record becomes the next state
Becomes(e0) ==
    LET e == Collect(e0)
    IN  /\ order_books' = e.order_books
        /\ objs' = e.objs
        /\ wal' = e.wal
        /\ writable' = e.writable
        /\ write_errors' = e.write_errors
        /\ trade_history' = e.trade_history
        /\ trade_id_counter' = e.trade_id_counter
        /\ metrics' = e.metrics

\* what a book holds, references resolved: the price levels with their
\* queues in order, and the id index
BookView(book, heap) ==
    [bids |-> [p \in DOMAIN book.bids |->
                 [i \in 1..Len(book.bids[p]) |-> heap[book.bids[p][i]]]],
     asks |-> [p \in DOMAIN book.asks |->
                 [i \in 1..Len(book.asks[p]) |-> heap[book.asks[p][i]]]],
     orders |-> [k \in DOMAIN book.orders |-> heap[book.orders[k]]]]

\* every symbol's book; a symbol without a book holds what a new book holds
BookViews(books, heap) ==
    [s \in Symbols |->
        IF BookIndex(books, s) = 0 THEN BookView(OrderBook(s), heap)
        ELSE BookView(books[BookIndex(books, s)], heap)]

\* the last call: the operation, the order id passed, the Order object as
\* the call left it, the trades it appended to trade_history, the exception
\* that escaped it, and for submit_order the books as they were when it
\* was called
NoCall ==
    [op |-> "none", order_id |-> "", order |-> NoOrder, trades |-> <<>>,
     raised |-> "", before |-> BookViews(<<>>, EmptyDict)]

\* MatchingEngine.__init__ with no WAL file on disk: nothing to recover
Init ==
    /\ order_books = <<>>
    /\ objs = EmptyDict
    /\ wal = <<>>
    /\ writable = "line"
    /\ write_errors = 0
    /\ trade_history = <<>>
    /\ trade_id_counter = 0
    /\ metrics = [orders_processed |-> 0, trades_executed |-> 0,
                  total_volume |-> 0]
    /\ call = NoCall
    /\ response = NoResponse
    /\ tasks = <<>>
    /\ advanced_orders = EmptyDict
    /\ conditional = [registered |-> 0, promoted |-> <<>>]
    /\ sample = NoSample
    /\ ring = RingBuffer(RingSize)
    /\ threads = [t \in Threads |-> Idle]
    /\ transfers = [pushed |-> <<>>, popped |-> <<>>]

\* ----------------------------------------------------------------- actions
\* the order_data dicts submitted
Requests ==
    [symbol : Symbols, order_type : OrderTypes, side : Sides,
     quantity : {0} \cup Quantities, price : {None} \cup Prices,
     order_id : {NoId, "a"}]

\* submissions against resting liquidity: well-formed, one symbol
BookRequests ==
    {d \in Requests : /\ d.symbol \in BookSymbols
                      /\ d.order_id = NoId
                      /\ d.quantity > 0
                      /\ (d.order_type = "market") = (d.price = None)}

\* a call of submit_order(order_data) and what it leaves behind
Submitted(order_data) ==
    LET r == submit_order(Engine, order_data)
    IN /\ Becomes(r.eng)
       /\ call' = [op |-> "submit_order", order_id |-> order_data.order_id,
                   order |-> r.order,
                   trades |-> SubSeq(r.eng.trade_history,
                                     Len(trade_history) + 1,
                                     Len(r.eng.trade_history)),
                   raised |-> "",
                   before |-> BookViews(order_books, objs)]
       /\ response' = r.response
       /\ UNCHANGED <<tasks, aside>>

\* a call of submit_order(order_data), while the log is short
SubmitOrder(order_data) ==
    /\ Len(wal) + write_errors < MaxWal
    /\ Submitted(order_data)

\* a call of cancel_order(order_id); the ValueError it raises escapes
CancelOrder(order_id) ==
    LET r == cancel_order(Engine, order_id)
    IN /\ Becomes(r.eng)
       /\ call' = [op |-> "cancel_order", order_id |-> order_id,
                   order |-> NoOrder, trades |-> <<>>, raised |-> r.raised,
                   before |-> NoCall.before]
       /\ response' = r.response
       /\ UNCHANGED <<tasks, aside>>

\* the ids of the orders placed on the book, in the order of their placement
RestingIds == <<"a", "b", "c", "d">>

\* the orders handed to OrderBook.add_order directly: LIMIT orders as
\* _create_order_from_data builds them
RestingOrders ==
    {initialize(Order(id), s, sd, "limit", q, p).order :
        id \in {RestingIds[i] : i \in 1..Len(RestingIds)}, s \in BookSymbols,
        sd \in Sides, q \in Quantities, p \in Prices}

\* a call of initialize_symbol(order.symbol) and of the book's exposed
\* operation add_order(order).  Liquidity is placed before the engine is
\* called, the k-th order under the k-th id.
AddOrder(order) ==
    /\ call.op \in {"none", "add_order"}
    /\ Cardinality(DOMAIN objs) < MaxResting
    /\ Cardinality(DOMAIN objs) < Len(RestingIds)
    /\ order.order_id = RestingIds[Cardinality(DOMAIN objs) + 1]
    /\ LET e1 == initialize_symbol(Engine, order.symbol)
           bi == BookIndex(e1.order_books, order.symbol)
           h == NewHandle(e1.objs)
           a == add_order(e1.order_books[bi], order, h)
       IN /\ Becomes(IF a.raised # "" THEN e1
                     ELSE [e1 EXCEPT !.order_books[bi] = a.book,
                                     !.objs = Put(@, h, a.order)])
          /\ call' = [op |-> "add_order", order_id |-> order.order_id,
                      order |-> a.order, trades |-> <<>>, raised |-> a.raised,
                      before |-> NoCall.before]
          /\ response' = NoResponse
          /\ UNCHANGED <<tasks, aside>>

SubmitAny == \E d \in Requests : SubmitOrder(d)
CancelAny == \E id \in ClientIds \cup {GenId} : CancelOrder(id)
SubmitToBook == \E d \in BookRequests : SubmitOrder(d)
AddAny == \E o \in RestingOrders : AddOrder(o)

\* a call of engine.wal.log_order_cancel(order_id)
LogOrderCancel(order_id) ==
    /\ Len(wal) + write_errors < MaxWal
    /\ Becomes(log_order_cancel(Engine, order_id))
    /\ call' = [NoCall EXCEPT !.op = "log_order_cancel",
                              !.order_id = order_id]
    /\ response' = NoResponse
    /\ UNCHANGED <<tasks, aside>>

\* under the id of the first resting order and under an id no book holds
LogCancelAny == \E id \in {RestingIds[1], GenId} : LogOrderCancel(id)

\* what the file may take of a line appended to it
Takes == {"line", "text", "part", "nothing"}

\* the file system between two calls: data/wal/orders.log stops taking
\* lines (it is locked or made read-only, or the disk or the size limit has
\* room for no byte, for part of the next line or for all but its newline),
\* or takes lines again
Storage ==
    /\ writable' \in Takes \ {writable}
    /\ call' = [NoCall EXCEPT !.op = "storage"]
    /\ response' = NoResponse
    /\ UNCHANGED <<order_books, objs, wal, write_errors, trade_history,
                   trade_id_counter, metrics, tasks, aside>>

\* the engine driven through submit_order and cancel_order
Next == SubmitAny \/ CancelAny

Spec == Init /\ [][Next]_vars

\* the engine and the book's exposed add_order: books with resting liquidity
NextBook == AddAny \/ SubmitToBook \/ CancelAny

SpecBook == Init /\ [][NextBook]_vars

\* FOK submissions against resting liquidity
FokRequests == {d \in BookRequests : d.order_type = "fok"}

SubmitFok == \E d \in FokRequests : SubmitOrder(d)

NextFok == AddAny \/ SubmitFok

SpecFok == Init /\ [][NextFok]_vars

\* LIMIT submissions, the only ones whose remainder may rest, one for each
\* side and price, and cancellations, against resting liquidity
LimitRequests ==
    {d \in BookRequests : d.order_type = "limit" /\ d.quantity = 1}

SubmitLimit == \E d \in LimitRequests : SubmitOrder(d)

NextLimit == AddAny \/ SubmitLimit \/ CancelAny

SpecLimit == Init /\ [][NextLimit]_vars

\* cancellations of resting orders
NextCancel == AddAny \/ CancelAny \/ LogCancelAny

SpecCancel == Init /\ [][NextCancel]_vars

\* takers of two units at the most a limit allows (MARKET orders, buys at
\* the highest price, sells at the lowest), and LIMIT takers under the
\* client-supplied id of the first resting order
TakerRequests ==
    {d \in Requests :
        /\ d.symbol \in BookSymbols
        /\ d.quantity = 2
        /\ (d.order_type = "market") = (d.price = None)
        /\ d.price \in {None, IF d.side = "buy" THEN Max(Prices)
                                ELSE Min(Prices)}
        /\ d.order_id = NoId \/ d.order_type = "limit"}

SubmitTaker == \E d \in TakerRequests : SubmitOrder(d)

\* takers against resting liquidity
NextTaker == AddAny \/ SubmitTaker

SpecTaker == Init /\ [][NextTaker]_vars

\* ------------------------------------------------------------------ claims
\* the last call was a submit_order that built an Order (validation passed)
Validated == call.op = "submit_order" /\ call.order # NoOrder

\* the book of the submitted order's symbol as it was when submit_order was
\* called, and as it is now
BookBefore == call.before[call.order.symbol]
BookNow == BookViews(order_books, objs)[call.order.symbol]

\* the side of a book that a taker of the given side matches against
OppositeOf(view, side) == IF side = "buy" THEN view.asks ELSE view.bids

\* the opposing prices the order may trade at
CrossingPrices(o, view) ==
    {p \in DOMAIN OppositeOf(view, o.side) :
        o.type = "market" \/ price_check(o.side, o.price, p)}

RECURSIVE QueueRemaining(_)
QueueRemaining(q) ==
    IF q = <<>> THEN 0 ELSE Head(q).remaining_qty + QueueRemaining(Tail(q))

RECURSIVE Liquidity(_, _)
Liquidity(levels, P) ==
    IF P = {} THEN 0
    ELSE LET p == CHOOSE x \in P : TRUE
         IN QueueRemaining(levels[p]) + Liquidity(levels, P \ {p})

\* the order meets opposing liquidity it must trade with: some opposing
\* level is within its limit and, for FOK, the levels within its limit hold
\* its whole quantity
Tradable(o, view) ==
    /\ CrossingPrices(o, view) # {}
    /\ o.type = "fok" =>
         Liquidity(OppositeOf(view, o.side), CrossingPrices(o, view))
           >= o.quantity

\* the best opposing price for a taker of the given side
BestOf(side, P) == IF side = "buy" THEN Min(P) ELSE Max(P)

\* price a is at least as good as price b for a taker of the given side
NoWorse(side, a, b) == IF side = "buy" THEN a <= b ELSE a >= b

\* C1: no trade-through.  Every trade of a submission is at the best
\* opposing price resting when it is made: the first trade is at the best
\* opposing price of the book as submitted, the trades never go back to a
\* better price, and no opposing level left on the book is better than a
\* price traded at.
C1_NoTradeThrough ==
    Validated =>
        LET side == call.order.side
            t == call.trades
        IN  /\ t # <<>> =>
                  t[1].price = BestOf(side, DOMAIN OppositeOf(BookBefore, side))
            /\ \A j, k \in 1..Len(t) : j < k => NoWorse(side, t[j].price, t[k].price)
            /\ \A k \in 1..Len(t) :
                 \A p \in DOMAIN OppositeOf(BookNow, side) :
                    NoWorse(side, t[k].price, p)

\* a MARKET order was submitted against two opposing levels, and the
\* submission is over
C1_Witness ==
    /\ Validated
    /\ call.order.type = "market"
    /\ Cardinality(DOMAIN OppositeOf(BookBefore, call.order.side)) = 2
    /\ response.status # ""

\* an order the submission traded with as maker
Filled(order_id) ==
    \E k \in 1..Len(call.trades) : call.trades[k].maker_order_id = order_id

C3_TradeAtMakerPrice ==
    Validated =>
        \A k \in 1..Len(call.trades) :
           LET id == call.trades[k].maker_order_id
           IN /\ id \in DOMAIN BookBefore.orders
              /\ call.trades[k].price = BookBefore.orders[id].price

\* an order was submitted with a limit better than the price of an opposing
\* resting order, and the submission is over
C3_Witness ==
    /\ Validated
    /\ call.order.type # "market"
    /\ \E p \in CrossingPrices(call.order, BookBefore) : p # call.order.price
    /\ response.status # ""

\* C4: FOK is all-or-nothing.  When submit_order has returned for a FOK
\* order, either the response says filled and the trades sum to the order's
\* quantity, or it says rejected, there are no trades and every book holds
\* what it held when submit_order was called.
C4_FokAllOrNothing ==
    (Validated /\ call.order.type = "fok") =>
        \/ /\ response.status = "filled"
           /\ SumQty(call.trades) = call.order.quantity
        \/ /\ response.status = "rejected"
           /\ call.trades = <<>>
           /\ BookViews(order_books, objs) = call.before

\* a FOK order was submitted against opposing liquidity within its limit
\* that is smaller than its quantity, and submit_order has returned
C4_Witness ==
    /\ Validated
    /\ call.order.type = "fok"
    /\ response.status = "rejected"
    /\ CrossingPrices(call.order, BookBefore) # {}
    /\ ~Tradable(call.order, BookBefore)

\* the order rests on its side of its symbol's book, in the queue of its
\* limit price, and is indexed
Rests(o) ==
    LET own == IF o.side = "buy" THEN BookNow.bids ELSE BookNow.asks
    IN  /\ o.order_id \in DOMAIN BookNow.orders
        /\ o.price \in DOMAIN own
        /\ \E i \in 1..Len(own[o.price]) : own[o.price][i].order_id = o.order_id

\* C5: remainder policy.  When submit_order has returned for a validated
\* order, the status it reports is FILLED when nothing remains; otherwise
\* MARKET is PARTIAL if it traded and REJECTED if not, LIMIT is PARTIAL if it
\* traded and OPEN if not and its remainder rests at its limit price, IOC is
\* PARTIAL_FILL_CANCELLED if it traded and REJECTED if not.
C5_RemainderPolicy ==
    Validated =>
        LET o == call.order
            traded == call.trades # <<>>
        IN  IF o.remaining_qty = 0 THEN response.status = "filled"
            ELSE CASE o.type = "market" ->
                        response.status = IF traded THEN "partial" ELSE "rejected"
                   [] o.type = "limit" ->
                        /\ response.status = IF traded THEN "partial" ELSE "open"
                        /\ Rests(o)
                   [] o.type = "ioc" ->
                        response.status = IF traded THEN "partial_fill_cancelled"
                                          ELSE "rejected"
                   [] OTHER -> TRUE

\* C6: the response of a validated submission reports as filled_quantity the
\* sum of the quantities of the trades the submission produced, and as
\* remaining_quantity 0 when the order was filled or was an IOC whose
\* remainder was cancelled.
C6_ResponseQuantities ==
    Validated =>
        /\ response.filled_quantity = SumQty(call.trades)
        /\ response.status \in {"filled", "partial_fill_cancelled"}
             => response.remaining_quantity = 0

\* C7: conservation.  Every order resting on a book has quantity = filled +
\* remaining; the response of a submission that reports quantities has
\* quantity = filled + remaining; the response of a cancellation has
\* quantity = filled + remaining + cancelled_quantity.
C7_Conservation ==
    /\ \A h \in DOMAIN objs :
         objs[h].quantity = objs[h].filled_qty + objs[h].remaining_qty
    /\ (call.op = "submit_order" /\ response.quantity # None) =>
         response.quantity
            = response.filled_quantity + response.remaining_quantity
    /\ (call.op = "cancel_order" /\ call.raised = "") =>
         response.quantity
            = response.filled_quantity + response.remaining_quantity
                + response.cancelled_quantity

\* no book with both bids and asks has its highest bid at or above its
\* lowest ask
Uncrossed(books) ==
    \A i \in 1..Len(books) :
        (DOMAIN books[i].bids # {} /\ DOMAIN books[i].asks # {})
            => Max(DOMAIN books[i].bids) < Min(DOMAIN books[i].asks)

\* C8: no crossed book.  submit_order and cancel_order leave no book crossed:
\* called on books that are not crossed, they return with books that are
\* not crossed.
C8_NoCrossedBook ==
    [][(call'.op \in {"submit_order", "cancel_order"} /\ Uncrossed(order_books))
          => Uncrossed(order_books')]_vars

\* submit_order has returned for a LIMIT order priced at or through the best
\* opposing price of a book that held both bids and asks, not crossed
C8_Witness ==
    /\ Validated
    /\ call.order.type = "limit"
    /\ DOMAIN BookBefore.bids # {} /\ DOMAIN BookBefore.asks # {}
    /\ Max(DOMAIN BookBefore.bids) < Min(DOMAIN BookBefore.asks)
    /\ CrossingPrices(call.order, BookBefore) # {}
    /\ DOMAIN BookNow.bids # {} /\ DOMAIN BookNow.asks # {}

RestingRef(books, order_id) ==
    IF \E i \in 1..Len(books) : order_id \in DOMAIN books[i].orders
    THEN LET i == CHOOSE i \in 1..Len(books) :
                     /\ order_id \in DOMAIN books[i].orders
                     /\ \A j \in 1..(i - 1) : order_id \notin DOMAIN books[j].orders
         IN books[i].orders[order_id]
    ELSE 0

\* the levels `after` are the levels `before` with reference h taken out of
\* its queue: every other reference keeps its level and its place among the
\* others, and a level left empty is gone
LevelsWithout(before, after, h) ==
    /\ DOMAIN after
         = {p \in DOMAIN before : SelectSeq(before[p], LAMBDA x : x # h) # <<>>}
    /\ \A p \in DOMAIN after :
         after[p] = SelectSeq(before[p], LAMBDA x : x # h)

\* C10: cancel_order of an order that rests with status OPEN or PARTIAL
\* returns a response with status cancelled and cancelled_quantity equal to
\* the order's remaining quantity; the order has left its price level and
\* the id index; every other resting order keeps its price, its quantities
\* and its place in its queue.
C10_CancelResting ==
    [][\A id \in ClientIds \cup {GenId} :
          LET h == RestingRef(order_books, id)
          IN  (/\ h # 0
               /\ objs[h].status \in {"open", "partial"}
               /\ CancelOrder(id))
              => /\ call'.raised = ""
                 /\ response'.status = "cancelled"
                 /\ response'.order_id = id
                 /\ response'.cancelled_quantity = objs[h].remaining_qty
                 /\ RestingRef(order_books', id) = 0
                 /\ Len(order_books') = Len(order_books)
                 /\ \A i \in 1..Len(order_books) :
                      /\ LevelsWithout(order_books[i].bids,
                                       order_books'[i].bids, h)
                      /\ LevelsWithout(order_books[i].asks,
                                       order_books'[i].asks, h)
                      /\ \A k \in DOMAIN order_books[i].orders \ {id} :
                           /\ k \in DOMAIN order_books'[i].orders
                           /\ order_books'[i].orders[k] = order_books[i].orders[k]
                 /\ \A g \in DOMAIN objs \ {h} :
                      g \in DOMAIN objs' /\ objs'[g] = objs[g]]_vars

\* cancel_order has returned for order "b", which rested behind order "a" in
\* the queue of one price level; "a" still rests there
C10_Witness ==
    /\ call.op = "cancel_order"
    /\ call.order_id = "b"
    /\ response.status = "cancelled"
    /\ \E h \in DOMAIN objs :
         /\ objs[h].order_id = "a"
         /\ objs[h].side = response.side
         /\ objs[h].price = response.price

\* the resting order at the head of the best opposing level the last
\* submission could trade with
HeadMaker ==
    LET levels == OppositeOf(BookBefore, call.order.side)
    IN  levels[BestOf(call.order.side,
                      CrossingPrices(call.order, BookBefore))][1]

\* the last call was a submission that met opposing liquidity within its
\* limit, enough of it to fill the head of the best level completely
FillsHeadMaker ==
    /\ Validated
    /\ Tradable(call.order, BookBefore)
    /\ HeadMaker.remaining_qty <= call.order.quantity

\* no book indexes order_id
Unknown(order_id) == RestingRef(order_books, order_id) = 0

\* the resting orders the last submission has filled completely: its trades
\* with them sum to what they had left
FilledMakers ==
    IF ~Validated THEN {}
    ELSE {id \in DOMAIN BookBefore.orders :
             /\ Filled(id)
             /\ SumQty(SelectSeq(call.trades,
                                 LAMBDA t : t.maker_order_id = id))
                  = BookBefore.orders[id].remaining_qty}

\* the orders the last submission has filled completely: those resting
\* orders, and the taker when the response says filled
FilledOrders ==
    FilledMakers
      \cup (IF Validated /\ response.status = "filled"
            THEN {call.order.order_id} ELSE {})

\* C11: cancel_order of the id of an order that a submission has filled
\* completely, as maker or as taker, raises the not-cancelable error,
\* cancel_order of an id that no book holds and no submission has filled
\* raises the not-found error, and neither changes a book, an order or the
\* WAL.
C11_CancelFilled ==
    [][\A id \in ClientIds \cup {GenId} :
          /\ (id \in FilledOrders /\ CancelOrder(id))
                => /\ call'.raised = "Cannot cancel order"
                   /\ UNCHANGED <<order_books, objs, wal>>
          /\ (id \notin FilledOrders /\ Unknown(id) /\ CancelOrder(id))
                => /\ call'.raised = "Order not found"
                   /\ UNCHANGED <<order_books, objs, wal>>]_vars

\* after a submission that met a resting order of its size within its
\* limit, cancel_order was called with an id that no book held and has
\* raised the not-found error
C11_Witness ==
    /\ call.op = "cancel_order"
    /\ call.raised = "Order not found"
    /\ wal # <<>>
    /\ \E i \in 1..Len(order_books) : DOMAIN order_books[i].orders # {}

\* MatchingEngine.get_order : the dict of the first book's order of that id,
\* NoResponse for None
MatchingEngine_get_order(e, order_id) ==
    LET h == RestingRef(e.order_books, order_id)
    IN  IF h = 0 THEN NoResponse ELSE to_dict(e.objs[h])

\* the orders queued behind the head maker at its level
BehindHeadMaker ==
    LET levels == OppositeOf(BookBefore, call.order.side)
    IN  Tail(levels[BestOf(call.order.side,
                           CrossingPrices(call.order, BookBefore))])

\* C12: order lookup reflects fills.  After a submission has filled a
\* resting order completely, get_order of that order's id returns its record
\* with status filled, and get_order of an order that arrived later at that
\* price and was not traded with returns a record with status open.
C12_GetOrderAfterFill ==
    Validated =>
        LET levels == OppositeOf(BookBefore, call.order.side)
        IN  \A p \in DOMAIN levels :
               \A i \in 1..Len(levels[p]) :
                  levels[p][i].order_id \in FilledMakers =>
                     /\ MatchingEngine_get_order(
                            Engine, levels[p][i].order_id).status = "filled"
                     /\ \A j \in (i + 1)..Len(levels[p]) :
                           ~Filled(levels[p][j].order_id) =>
                              MatchingEngine_get_order(
                                 Engine, levels[p][j].order_id).status = "open"

\* an order was submitted that met, within its limit, a resting order of its
\* size with another queued behind it at that price, and the submission is
\* over
C12_Witness ==
    /\ FillsHeadMaker
    /\ call.order.quantity = HeadMaker.remaining_qty
    /\ BehindHeadMaker # <<>>
    /\ response.status # ""

\* the loop of WriteAheadLog.recover_order_book over the entries replay()
\* has read: an ORDER_SUBMIT entry is submitted again through submit_order,
\* whose result is dropped; a TRADE_EXECUTE entry is counted; an entry of
\* any other type (ORDER_CANCEL) is passed over
RECURSIVE recover_entries(_, _)
recover_entries(e, entries) ==
    IF entries = <<>> THEN e
    ELSE Only({recover_entries(e1, Tail(entries)) :
                 e1 \in {IF Head(entries).type = "ORDER_SUBMIT"
                         THEN submit_order(e, Head(entries).data).eng
                         ELSE e}})

\* WriteAheadLog.recover_order_book(matching_engine): replay() reads the
\* whole file before the first entry is applied, and what it raises is
\* raised to the caller with no entry applied
recover_order_book(e) ==
    Only({IF r.raised # "" THEN [eng |-> e, raised |-> r.raised]
          ELSE [eng |-> recover_entries(e, r.entries), raised |-> ""]
          : r \in {replay(e.wal)}})

\* the entries the step has appended to the WAL
Appended == SubSeq(wal', Len(wal) + 1, Len(wal'))


\* ------------------------------------------------------- request validation
\* well-formed submissions of one unit at one price
UnitRequests ==
    {d \in BookRequests : d.quantity = 1 /\ d.price \in {None, 1}}

\* LIMIT submissions under a client-supplied order id, the id of the first
\* resting order
SuppliedIdRequests ==
    {[d EXCEPT !.order_id = RestingIds[1]] :
        d \in {u \in UnitRequests : u.order_type = "limit"}}

\* a quantity and a price below zero
Negative == -2

\* two other spellings of a side or an order type: in capitals, and with
\* a capital initial
Respelled(word) ==
    CASE word = "buy" -> {"BUY", "Buy"}
      [] word = "sell" -> {"SELL", "Sell"}
      [] word = "market" -> {"MARKET", "Market"}
      [] word = "limit" -> {"LIMIT", "Limit"}
      [] word = "ioc" -> {"IOC", "Ioc"}
      [] word = "fok" -> {"FOK", "Fok"}
      [] OTHER -> {}

\* the submissions got from a well-formed one by changing one field: a
\* required field left out, a side or an order type outside the enum, a
\* quantity or a price that is not positive, a price on a MARKET order, no
\* price on another order, a price given as the number 0, a side or an
\* order type spelled with capitals
Spoiled(d) ==
    {[d EXCEPT !.symbol = ""], [d EXCEPT !.order_type = ""],
     [d EXCEPT !.side = ""], [d EXCEPT !.quantity = None],
     [d EXCEPT !.side = "hold"], [d EXCEPT !.order_type = "stop"],
     [d EXCEPT !.quantity = 0], [d EXCEPT !.quantity = Negative],
     [d EXCEPT !.price = 0], [d EXCEPT !.price = Negative],
     [d EXCEPT !.price = IF d.order_type = "market" THEN 1 ELSE None],
     [d EXCEPT !.price = FalsyPrice]}
    \cup {[d EXCEPT !.side = w] : w \in Respelled(d.side)}
    \cup {[d EXCEPT !.order_type = w] : w \in Respelled(d.order_type)}

SpoiledRequests == UNION {Spoiled(d) : d \in UnitRequests}

InputRequests == UnitRequests \cup SuppliedIdRequests \cup SpoiledRequests

\* what the specification calls an invalid submission (the sign of the
\* price is the specification's rule, no branch of the code tests it); a
\* side or an order type in capitals is taken as the one it spells
Invalid(d) ==
    \/ MissingField(d)
    \/ lower(d.side) \notin Sides
    \/ lower(d.order_type) \notin OrderTypes
    \/ d.quantity <= 0
    \/ d.price # None /\ d.price <= 0
    \/ lower(d.order_type) = "market" /\ d.price # None
    \/ lower(d.order_type) # "market" /\ d.price = None

\* resting orders of one unit at one price
UnitOrders == {o \in RestingOrders : o.quantity = 1 /\ o.price = 1}

AddUnit == \E o \in UnitOrders : AddOrder(o)
SubmitInput == \E d \in InputRequests : SubmitOrder(d)

\* well-formed and malformed submissions against resting liquidity
NextInput == AddUnit \/ SubmitInput

SpecInput == Init /\ [][NextInput]_vars

\* well-formed submissions of one unit, with a generated id or, for LIMIT,
\* under the id of the first resting order, and cancellations, against
\* resting liquidity of one unit at one price
SubmitUnit ==
    \E d \in UnitRequests \cup SuppliedIdRequests : SubmitOrder(d)

NextRoundTrip == AddUnit \/ SubmitUnit \/ CancelAny

SpecRoundTrip == Init /\ [][NextRoundTrip]_vars

\* the last submission failed: an exception was raised before the order
\* got an outcome
Failed ==
    /\ call.op = "submit_order"
    /\ call.order = NoOrder \/ call.order.status = "pending"

C15_Validation ==
    [][\/ call'.op # "submit_order"
       \/ /\ response'.status = "rejected"
          /\ call'.trades = <<>>
          /\ trade_history' = trade_history
          /\ BookViews(order_books', objs') = BookViews(order_books, objs)
       \/ \A d \in InputRequests : ~(Invalid(d) /\ SubmitOrder(d))]_vars

\* a LIMIT submission with a price below zero has come back rejected
C15_Witness ==
    /\ Validated
    /\ call.order.type = "limit"
    /\ call.order.price = Negative
    /\ response.status = "rejected"

\* the trade's price is within the taker's limit
WithinLimit(o, t) == o.type = "market" \/ price_check(o.side, o.price, t.price)

\* C16: limit protection.  Every trade of a LIMIT, IOC or FOK taker is priced
\* within the taker's limit, and the walk goes on to the first best level
\* that does not cross: when submit_order has returned for an order that was
\* not killed, either nothing of it remains or no opposing level within its
\* limit is left; for a MARKET taker, which has no limit, either nothing
\* remains or the opposing side is empty.
C16_LimitProtection ==
    (Validated /\ (call.order.type = "fok" => Tradable(call.order, BookBefore)))
      =>
        /\ \A k \in 1..Len(call.trades) : WithinLimit(call.order, call.trades[k])
        /\ \/ call.order.remaining_qty = 0
           \/ CrossingPrices(call.order, BookNow) = {}

\* the orders a book holds, in its levels and in its id index
Held(view) ==
    {view.orders[k] : k \in DOMAIN view.orders}
      \cup UNION {{view.bids[p][i] : i \in 1..Len(view.bids[p])} :
                    p \in DOMAIN view.bids}
      \cup UNION {{view.asks[p][i] : i \in 1..Len(view.asks[p])} :
                    p \in DOMAIN view.asks}

\* C17: only LIMIT orders rest.  When submit_order has returned, every order
\* in a price level or in an id index of any book is a LIMIT order; the
\* submitted order, if MARKET, IOC or FOK, is in no level and no index; a
\* MARKET order that found the opposing side empty has been rejected without
\* a trade.
C17_OnlyLimitRests ==
    call.op = "submit_order" =>
        /\ \A s \in Symbols :
             \A o \in Held(BookViews(order_books, objs)[s]) : o.type = "limit"
        /\ (Validated /\ call.order.type # "limit") =>
             \A s \in Symbols :
                \A o \in Held(BookViews(order_books, objs)[s]) :
                   o.order_id # call.order.order_id
        /\ (Validated /\ call.order.type = "market"
              /\ DOMAIN OppositeOf(BookBefore, call.order.side) = {}) =>
             /\ response.status = "rejected"
             /\ call.trades = <<>>

\* a MARKET order on a book whose own side holds an order and whose opposing
\* side is empty has been rejected
C17_Witness ==
    /\ Validated
    /\ call.order.type = "market"
    /\ DOMAIN OppositeOf(BookBefore, call.order.side) = {}
    /\ BookBefore.orders # <<>>
    /\ response.status = "rejected"

\* C18: trade attribution.  In every trade of the trade history the maker's
\* order id differs from the taker's, whether the taker's id was generated
\* or supplied by the client.
C18_MakerIsNotTaker ==
    \A k \in 1..Len(trade_history) :
       trade_history[k].maker_order_id # trade_history[k].taker_order_id

\* an order was submitted under the client-supplied id of an opposing
\* resting order within its limit, and the submission is over
C18_Witness ==
    /\ Validated
    /\ \E p \in CrossingPrices(call.order, BookBefore) :
          \E i \in 1..Len(OppositeOf(BookBefore, call.order.side)[p]) :
             OppositeOf(BookBefore, call.order.side)[p][i].order_id
               = call.order.order_id
    /\ response.status # ""

\* ------------------------------------------------------------------- BBO
\* a price level as peekitem returns it, no level, and the IndexError of
\* peekitem on an empty SortedDict
Level(price, queue) == [found |-> TRUE, price |-> price, queue |-> queue, raised |-> ""]
NoLevel == [found |-> FALSE, price |-> None, queue |-> <<>>, raised |-> ""]
PeekEmpty == [found |-> FALSE, price |-> None, queue |-> <<>>, raised |-> "IndexError"]

\* OrderBook.get_best_bid : self.bids.peekitem(-1)
get_best_bid(view) ==
    IF DOMAIN view.bids = {} THEN NoLevel
    ELSE Level(Max(DOMAIN view.bids), view.bids[Max(DOMAIN view.bids)])

\* OrderBook.get_best_ask : tests self.asks, then returns
\* self.bids.peekitem(0)
get_best_ask(view) ==
    IF DOMAIN view.asks = {} THEN NoLevel
    ELSE IF DOMAIN view.bids = {} THEN PeekEmpty
    ELSE Level(Min(DOMAIN view.bids), view.bids[Min(DOMAIN view.bids)])

\* OrderBook._recalculate_bbo ; spread_bps is the exact quotient
\* <<spread * 10000, best bid>>, <<>> for None.  The cache is assigned
\* (lines 97-102) and its key "spread" set (line 107) before the division of
\* line 108: a best bid of zero raises "ZeroDivision" there and leaves the
\* cache with five keys and the book dirty.  An IndexError of get_best_ask
\* is raised before the cache is assigned.
_recalculate_bbo(book, heap) ==
    LET view == BookView(book, heap)
        best_bid == get_best_bid(view)
        best_ask == get_best_ask(view)
        both == best_bid.found /\ best_ask.found
        spread == best_ask.price - best_bid.price
    IN  IF best_ask.raised # ""
        THEN [book |-> book, raised |-> best_ask.raised]
        ELSE IF both /\ best_bid.price = 0
        THEN [book |-> [book EXCEPT
                !.cached_bbo =
                    [best_bid |-> best_bid.price,
                     best_bid_qty |-> QueueRemaining(best_bid.queue),
                     best_ask |-> best_ask.price,
                     best_ask_qty |-> QueueRemaining(best_ask.queue),
                     spread |-> spread]],
              raised |-> "ZeroDivision"]
        ELSE [book |-> [book EXCEPT
                !.cached_bbo =
                    [best_bid |-> best_bid.price,
                     best_bid_qty |-> QueueRemaining(best_bid.queue),
                     best_ask |-> best_ask.price,
                     best_ask_qty |-> QueueRemaining(best_ask.queue),
                     spread |-> IF both THEN spread ELSE None,
                     spread_bps |-> IF both
                                    THEN <<spread * 10000, best_bid.price>>
                                    ELSE <<>>],
                !.bbo_dirty = FALSE],
              raised |-> ""]

\* OrderBook.get_bbo : the cache, recalculated first when the book is dirty
get_bbo(book, heap) ==
    IF book.bbo_dirty
    THEN LET r == _recalculate_bbo(book, heap)
         IN [book |-> r.book, bbo |-> r.book.cached_bbo, raised |-> r.raised]
    ELSE [book |-> book, bbo |-> book.cached_bbo, raised |-> ""]

\* a call of get_bbo() on the symbol's book
GetBbo(symbol) ==
    /\ BookIndex(order_books, symbol) # 0
    /\ LET bi == BookIndex(order_books, symbol)
           r == get_bbo(order_books[bi], objs)
       IN /\ order_books' = [order_books EXCEPT ![bi] = r.book]
          /\ call' = [NoCall EXCEPT !.op = "get_bbo", !.raised = r.raised]
          /\ response' = NoResponse
          /\ UNCHANGED <<objs, wal, writable, write_errors, trade_history,
                         trade_id_counter, metrics,
                         tasks, aside>>

GetAny == \E s \in BookSymbols : GetBbo(s)

\* orders placed and cancelled, and the BBO read in between
NextBbo == AddAny \/ CancelAny \/ GetAny

SpecBbo == Init /\ [][NextBbo]_vars

\* C19: BBO content.  get_bbo succeeds whatever sides of the book are empty
\* and returns as best_bid the highest bid price, as best_ask the lowest ask
\* price, None for an empty side, and as quantities the sums of the remaining
\* quantities of the orders resting at those two levels.
C19_BboContent ==
    [][\A s \in BookSymbols :
          GetBbo(s) =>
            LET view == BookViews(order_books, objs)[s]
                bbo == order_books'[BookIndex(order_books', s)].cached_bbo
            IN  /\ call'.raised = ""
                /\ bbo.best_bid = IF DOMAIN view.bids = {} THEN None
                                  ELSE Max(DOMAIN view.bids)
                /\ bbo.best_ask = IF DOMAIN view.asks = {} THEN None
                                  ELSE Min(DOMAIN view.asks)
                /\ bbo.best_bid_qty
                     = IF DOMAIN view.bids = {} THEN 0
                       ELSE QueueRemaining(view.bids[Max(DOMAIN view.bids)])
                /\ bbo.best_ask_qty
                     = IF DOMAIN view.asks = {} THEN 0
                       ELSE QueueRemaining(view.asks[Min(DOMAIN view.asks)])]_vars

\* ------------------------------------------------------------- REST server
\* the points at which the event loop may suspend the handler of
\* POST /api/v1/orders and run another: the handler is an `async def` that
\* calls the synchronous MatchingEngine.submit_order and awaits nothing
suspends(pc) == FALSE

\* who calls MatchingEngine.submit_order: a handler of the REST server's
\* event loop, or a thread of a program that holds the engine.  submit_order
\* takes no lock (matching_engine.py has none), so a thread may be preempted
\* inside it and another caller run
Callers == {"event_loop", "thread"}

\* MatchingEngine.__init__ without a WAL file
NewEngine ==
    [order_books |-> <<>>, objs |-> EmptyDict, wal |-> <<>>,
     writable |-> "line", write_errors |-> 0, trade_history |-> <<>>, trade_id_counter |-> 0,
     metrics |-> [orders_processed |-> 0, trades_executed |-> 0,
                  total_volume |-> 0]]

\* the sequence without its i-th element
Without(q, i) == SubSeq(q, 1, i - 1) \o SubSeq(q, i + 1, Len(q))

\* a caller is about to call submit_order(order_data) while other calls
\* are in flight; the requests logged and in flight number at most
\* MaxWal + 1.  A call in flight keeps its locals (order, trades, response),
\* the engine as it was when the call started and the engine as the call's
\* last step left it
Arrive(order_data, caller) ==
    /\ Len(tasks) < MaxInFlight
    /\ Len(wal) + Len(tasks) < MaxWal + 1
    /\ tasks' = Append(tasks, [request |-> order_data, caller |-> caller,
                               pc |-> "queued",
                               order |-> NoOrder, trades |-> <<>>,
                               response |-> NoResponse,
                               start |-> NewEngine, left |-> NewEngine])
    /\ UNCHANGED <<order_books, objs, wal, writable, write_errors,
                   trade_history,
                   trade_id_counter,
                   metrics, call, response, aside>>

\* the i-th call in flight has run up to its next print, log line or file
\* write, where the interpreter lets another thread run: the engine becomes
\* e and the call's locals change as in t, a copy of its task
Moves(i, e, t) ==
    /\ Becomes(e)
    /\ tasks' = [tasks EXCEPT ![i] = [t EXCEPT !.left = Collect(e)]]
    /\ UNCHANGED <<call, response, aside>>

\* the i-th call has raised: the except branch of submit_order builds the
\* rejection dict and logs the error
Raises(i, e, order, error) ==
    Moves(i, e, [tasks[i] EXCEPT !.pc = "raised", !.order = order,
                    !.response = ErrorResponse(tasks[i].request.order_id,
                                               error)])

\* the i-th call in flight starts: the required fields are looked up and
\* initialize_symbol creates the book.  The event loop starts a handler
\* when every other handler is yet to start or is suspended; a thread, and
\* any caller beside a thread, starts whenever it is scheduled
Start(i) ==
    /\ tasks[i].pc = "queued"
    /\ \A j \in 1..Len(tasks) :
          j # i => \/ tasks[j].pc = "queued"
                   \/ suspends(tasks[j].pc)
                   \/ "thread" \in {tasks[i].caller, tasks[j].caller}
    /\ LET t == [tasks[i] EXCEPT !.start = Engine]
       IN IF MissingField(t.request)
          THEN Moves(i, Engine,
                     [t EXCEPT !.pc = "raised",
                               !.response = ErrorResponse(t.request.order_id,
                                               "Missing required field")])
          ELSE Moves(i, initialize_symbol(Engine, t.request.symbol),
                     [t EXCEPT !.pc = "initialized"])

\* the call goes on: _create_order_from_data and log_order_submission
Log(i) ==
    /\ tasks[i].pc = "initialized"
    /\ LET c == _create_order_from_data(tasks[i].request)
       IN IF c.raised # "" THEN Raises(i, Engine, NoOrder, c.raised)
          ELSE Moves(i, log_order_submission(Engine, c.order),
                     [tasks[i] EXCEPT !.pc = "logged", !.order = c.order])

\* the call goes on: _match_order, which as the code stands writes to no
\* attribute of the engine (the pre-check of a FOK order refuses or the walk
\* raises at its first line)
Walk(i) ==
    /\ tasks[i].pc = "logged"
    /\ LET m == _match_order(Engine, tasks[i].order)
       IN IF m.raised # "" THEN Raises(i, m.eng, m.order, m.raised)
          ELSE Moves(i, m.eng,
                     [tasks[i] EXCEPT !.pc = "walked", !.order = m.order,
                                      !.trades = m.trades])

\* the call goes on: _handle_remaining_quantity
Rest(i) ==
    /\ tasks[i].pc = "walked"
    /\ LET r == _handle_remaining_quantity(Engine, tasks[i].order,
                                           tasks[i].trades)
       IN IF r.raised # "" THEN Raises(i, r.eng, r.order, r.raised)
          ELSE Moves(i, r.eng,
                     [tasks[i] EXCEPT !.pc = "handled", !.order = r.order,
                                      !.response = r.response])

\* the call goes on: the counters of self.metrics, _broadcast_updates and
\* the log line of the latency
Count(i) ==
    /\ tasks[i].pc = "handled"
    /\ LET t == tasks[i]
           u == update_metrics([eng |-> Engine, order |-> t.order,
                                response |-> t.response],
                               t.trades, t.request)
       IN Moves(i, u.eng,
                [t EXCEPT !.pc = IF metrics = NoMetrics THEN "raised"
                                 ELSE "counted",
                          !.response = u.response])

\* the call returns its response, from the try block or from the except
\* branch
Finish(i) ==
    /\ tasks[i].pc \in {"counted", "raised"}
    /\ UNCHANGED <<order_books, objs, wal, writable, write_errors,
                   trade_history, trade_id_counter, metrics, aside>>
    /\ LET t == tasks[i]
       IN /\ tasks' = Without(tasks, i)
          /\ call' = [op |-> "submit_order", order_id |-> t.request.order_id,
                      order |-> t.order,
                      trades |-> IF t.pc = "raised" THEN <<>> ELSE t.trades,
                      raised |-> "",
                      before |-> BookViews(t.start.order_books, t.start.objs)]
          /\ response' = t.response

\* FOK and MARKET requests of one unit, as OrderRequest.dict() hands them
\* to the engine: no order_id
RestRequests == {d \in UnitRequests : d.order_type \in {"fok", "market"}}

ArriveAny == \E d \in RestRequests, c \in Callers : Arrive(d, c)

\* the i-th call in flight runs from where it is to the next point at which
\* another thread may run
Step(i) == Start(i) \/ Log(i) \/ Walk(i) \/ Rest(i) \/ Count(i) \/ Finish(i)

StartAny == \E i \in 1..Len(tasks) : Start(i)
LogAny == \E i \in 1..Len(tasks) : Log(i)
WalkAny == \E i \in 1..Len(tasks) : Walk(i)
RestAny == \E i \in 1..Len(tasks) : Rest(i)
CountAny == \E i \in 1..Len(tasks) : Count(i)
FinishAny == \E i \in 1..Len(tasks) : Finish(i)

\* liquidity is placed before the first request arrives
AddFirst == tasks = <<>> /\ AddUnit

\* concurrent submissions against resting liquidity
NextRest ==
    \/ AddFirst
    \/ ArriveAny
    \/ StartAny
    \/ LogAny
    \/ WalkAny
    \/ RestAny
    \/ CountAny
    \/ FinishAny

SpecRest == Init /\ [][NextRest]_vars

\* the next state of the engine and the dict returned are those of one
\* submit_order(order_data) called on engine e
EffectOf(e, order_data) ==
    LET r == submit_order(e, order_data)
        a == Collect(r.eng)
    IN  /\ order_books' = a.order_books
        /\ objs' = a.objs
        /\ wal' = a.wal
        /\ writable' = a.writable
        /\ write_errors' = a.write_errors
        /\ trade_history' = a.trade_history
        /\ trade_id_counter' = a.trade_id_counter
        /\ metrics' = a.metrics
        /\ response' = r.response

InLevels(view) ==
    UNION {{view.bids[p][i] : i \in 1..Len(view.bids[p])} :
             p \in DOMAIN view.bids}
      \cup UNION {{view.asks[p][i] : i \in 1..Len(view.asks[p])} :
                    p \in DOMAIN view.asks}

\* C21: resting-order invariant.  After every operation, every order in a
\* price level of any book has a remaining quantity above zero and status
\* OPEN or PARTIAL.
C21_RestingOrders ==
    \A i \in 1..Len(order_books) :
        \A o \in InLevels(BookView(order_books[i], objs)) :
            /\ o.remaining_qty > 0
            /\ o.status \in {"open", "partial"}

\* cancel_order has cancelled one resting order and another still rests
C21_Witness ==
    /\ call.op = "cancel_order"
    /\ response.status = "cancelled"
    /\ \E i \in 1..Len(order_books) :
          InLevels(BookView(order_books[i], objs)) # {}

\* the engine as _match_order finds it for the submitted order_data: the
\* symbol's book exists (submit_order line 77)
AtMatch(order_data) == initialize_symbol(Engine, order_data.symbol)

\* the book the order built from order_data is matched against, with the
\* orders of its levels
MatchedBook(order_data) ==
    LET e == AtMatch(order_data)
    IN BookView(e.order_books[BookIndex(e.order_books, order_data.symbol)],
                e.objs)

\* the answer of _can_fill_completely for the order built from order_data
\* on the book as it is when submit_order is called
CanFill(order_data) ==
    LET e == AtMatch(order_data)
        order == _create_order_from_data(order_data).order
    IN _can_fill_completely(e.objs, order,
          OpposingSide(e.order_books[BookIndex(e.order_books, order.symbol)],
                       order.side))

\* the summed remaining quantity of the opposing resting orders at prices
\* that cross the order's limit
CrossingLiquidity(order_data) ==
    LET order == _create_order_from_data(order_data).order
        view == MatchedBook(order_data)
    IN Liquidity(OppositeOf(view, order.side), CrossingPrices(order, view))

\* C22: FOK pre-check.  _can_fill_completely answers true exactly when the
\* remaining quantities of the opposing resting orders at crossing prices sum
\* to at least the order's quantity (also when equal), and whenever it
\* answers true the walk that follows leaves the taker with remaining
\* quantity zero.
C22_FokPreCheck ==
    [][\A d \in FokRequests :
         SubmitOrder(d) =>
           /\ CanFill(d) <=> (CrossingLiquidity(d) >= d.quantity)
           /\ CanFill(d) => call'.order.remaining_qty = 0]_vars

\* ------------------------------------------------------- write-ahead log
\* every TRADE_EXECUTE record of the log w comes after an ORDER_SUBMIT
\* record of its taker and one of its maker
TradesPreceded(w) ==
    \A k \in 1..Len(w) :
        w[k].type = "TRADE_EXECUTE" =>
            \A id \in {w[k].data.taker_order_id, w[k].data.maker_order_id} :
                \E j \in 1..(k - 1) :
                    /\ w[j].type = "ORDER_SUBMIT"
                    /\ w[j].data.order_id = id

\* the levels of every book, as they are and after the step
LevelsNow == {InLevels(BookView(order_books[i], objs)) :
                 i \in 1..Len(order_books)} \ {{}}
LevelsNext == {InLevels(BookView(order_books'[i], objs')) :
                  i \in 1..Len(order_books')} \ {{}}

\* C23: write-ahead ordering.  A submission that passes validation appends
\* its ORDER_SUBMIT record first: the records it appends start with the
\* ORDER_SUBMIT of its order and go on with TRADE_EXECUTE records only, a
\* submission that appends nothing makes no trade and changes no level, and
\* every TRADE_EXECUTE record in the log comes after the ORDER_SUBMIT records
\* of its taker and its maker.
C23_WriteAhead ==
    [][call'.op = "submit_order" =>
           /\ call'.order # NoOrder =>
                /\ Appended # <<>>
                /\ Appended[1].type = "ORDER_SUBMIT"
                /\ Appended[1].data.order_id = call'.order.order_id
                /\ \A k \in 2..Len(Appended) :
                      /\ Appended[k].type = "TRADE_EXECUTE"
                      /\ Appended[k].data.taker_order_id
                           = call'.order.order_id
           /\ Appended = <<>> =>
                /\ trade_history' = trade_history
                /\ LevelsNext = LevelsNow
           /\ TradesPreceded(wal')]_vars

\* well-formed submissions of one unit, and the same without a quantity
WalRequests == UnitRequests \cup {[d EXCEPT !.quantity = 0] : d \in UnitRequests}

\* one submission more than elsewhere, so that a record is appended to a log
\* that already holds one
SubmitWal ==
    /\ Len(wal) + write_errors < MaxWal + 1
    /\ \E d \in WalRequests : Submitted(d)

\* submissions while the log file stops and starts being writable
NextWal == AddUnit \/ SubmitWal \/ Storage

SpecWal == Init /\ [][NextWal]_vars

\* the writes to the log succeed: the file takes the line written and ends
\* with a complete line
Succeeding == writable = "line" /\ ~NoNewline(wal)

\* the lines that are records
Records == {"ORDER_SUBMIT", "TRADE_EXECUTE", "ORDER_CANCEL"}

\* C23 as amended: write-ahead ordering of the writes that succeed.  A
\* submission that passes validation while the log file takes the line
\* written and ends with a complete line appends its ORDER_SUBMIT record
\* first: the records it appends start with the ORDER_SUBMIT of its order
\* and go on with TRADE_EXECUTE records only, and such a submission that
\* appends nothing makes no trade and changes no level; a submission whose
\* write fails appends no complete record line; and every TRADE_EXECUTE
\* record in the log comes after the ORDER_SUBMIT records of its taker and
\* its maker.
C23_WriteAheadWritten ==
    [][call'.op = "submit_order" =>
           /\ (call'.order # NoOrder /\ Succeeding) =>
                /\ Appended # <<>>
                /\ Appended[1].type = "ORDER_SUBMIT"
                /\ Appended[1].data.order_id = call'.order.order_id
                /\ \A k \in 2..Len(Appended) :
                      /\ Appended[k].type = "TRADE_EXECUTE"
                      /\ Appended[k].data.taker_order_id
                           = call'.order.order_id
           /\ (Appended = <<>> /\ Succeeding) =>
                /\ trade_history' = trade_history
                /\ LevelsNext = LevelsNow
           /\ writable # "line" =>
                \A k \in 1..Len(Appended) : Appended[k].type \notin Records
           /\ TradesPreceded(wal')]_vars

\* a submission passed validation, its ORDER_SUBMIT record is the last of
\* a log that held a record already, and the matching that followed ended in
\* a rejection
C23_Witness ==
    /\ Validated
    /\ Len(wal) > 1
    /\ wal[Len(wal)].type = "ORDER_SUBMIT"
    /\ wal[Len(wal)].data.order_id = call.order.order_id
    /\ response.status = "rejected"

\* ---------------------------------------------------------------- restart
\* MatchingEngine.load_recovery_data: the try/except around the recovery
\* prints whatever is raised, so nothing is raised to __init__
load_recovery_data(e) ==
    [eng |-> recover_order_book(e).eng, raised |-> ""]

\* MatchingEngine.__init__ of a new process over the log w left on disk:
\* empty books, the recovery (line 35), then self.metrics (lines 38-43), so
\* the submissions of the recovery run on an engine without metrics
MatchingEngine_init(w) ==
    Only({[eng |-> [r.eng EXCEPT !.metrics = NewEngine.metrics],
           raised |-> r.raised]
          : r \in {load_recovery_data([NewEngine EXCEPT !.wal = w,
                                                       !.writable = writable,
                                                       !.write_errors = write_errors,
                                                       !.metrics = NoMetrics])}})

\* the process is started again over the log as it is, while the entries to
\* replay and the failed writes are few
Restart ==
    /\ Len(replay(wal).entries) <= MaxWal
    /\ write_errors <= MaxWal
    /\ LET r == MatchingEngine_init(wal)
       IN /\ Becomes(r.eng)
          /\ call' = [NoCall EXCEPT !.op = "restart", !.raised = r.raised]
          /\ response' = NoResponse
          /\ tasks' = <<>>
          /\ advanced_orders' = EmptyDict
          /\ UNCHANGED <<conditional, sample, ring, threads, transfers>>

NextRestart == AddUnit \/ SubmitInput \/ LogCancelAny \/ Storage \/ Restart

SpecRestart == Init /\ [][NextRestart]_vars

\* the engine driven from empty through submit_order and cancel_order only,
\* so that the WAL holds a record of every order a book may hold
NextReplay == SubmitInput \/ CancelAny

SpecReplay == Init /\ [][NextReplay]_vars

\* C13: replay equivalence.  After any sequence of submit_order and
\* cancel_order calls, an engine that starts empty and replays the WAL has
\* books equal in content (resting order ids, sides, prices, remaining
\* quantities, queue order of each level) to the books of the engine that
\* wrote it.
C13_Replay ==
    LET r == MatchingEngine_init(wal).eng
    IN  BookViews(r.order_books, r.objs) = BookViews(order_books, objs)

\* a LIMIT submission is in the log and cancel_order has been called with
\* its order id
C13_Witness ==
    /\ call.op = "cancel_order"
    /\ wal # <<>>
    /\ wal[Len(wal)].type = "ORDER_SUBMIT"
    /\ wal[Len(wal)].data.order_type = "limit"
    /\ wal[Len(wal)].data.order_id = call.order_id

\* C24: replay does not write.  The records of the WAL after the recovery
\* at engine start are the records before it.
C24_ReplayDoesNotWrite ==
    [][call'.op = "restart" => wal' = wal]_vars

\* what submit_order returns to recover_order_book for a logged payload
ReplayedResponse(e, order_data) == submit_order(e, order_data).response

\* some logged submission fails when recover_order_book re-applies the
\* entries to the engine e
RECURSIVE ReplayFails(_, _)
ReplayFails(e, entries) ==
    IF entries = <<>> THEN FALSE
    ELSE \/ /\ Head(entries).type = "ORDER_SUBMIT"
            /\ ReplayedResponse(e, Head(entries).data).error # ""
         \/ ReplayFails(recover_entries(e, <<Head(entries)>>),
                        Tail(entries))

\* the TRADE_EXECUTE records of the log w
LoggedTrades(w) == SelectSeq(w, LAMBDA x : x.type = "TRADE_EXECUTE")

\* replaying the log w diverges: a logged submission fails, or the trades
\* of the replay are not the logged ones
Diverges(w) ==
    LET e0 == [NewEngine EXCEPT !.wal = w, !.writable = writable,
                                !.write_errors = write_errors,
                                !.metrics = NoMetrics]
        e == recover_entries(e0, w)
    IN \/ ReplayFails(e0, w)
       \/ Len(LoggedTrades(w)) # Len(e.trade_history)
       \/ \E k \in 1..Len(e.trade_history) :
             LET t == e.trade_history[k]
                 l == LoggedTrades(w)[k].data
             IN \/ t.trade_id # l.trade_id
                \/ t.price # l.price
                \/ t.quantity # l.quantity

\* C25: replay divergence is surfaced.  When the replay of the log at engine
\* start diverges, the construction of the engine fails, so that the engine
\* does not go on to serve.
C25_DivergenceSurfaced ==
    [][(call'.op = "restart" /\ Diverges(wal)) => call'.raised # ""]_vars

\* C26: a cancel_order that succeeds appends exactly one ORDER_CANCEL record
\* carrying the cancelled order's id to the WAL, and a cancel_order that
\* fails appends none.
C26_CancelLogged ==
    [][call'.op = "cancel_order" =>
         IF call'.raised = ""
         THEN Appended = <<[type |-> "ORDER_CANCEL",
                            data |-> [order_id |-> call'.order_id]]>>
         ELSE Appended = <<>>]_vars

\* the payload of a logged record passes the validation of submit_order
Resubmittable(order_data) ==
    /\ ~MissingField(order_data)
    /\ _create_order_from_data(order_data).raised = ""

\* C27: a submission that fails validation appends no record to the WAL,
\* and every ORDER_SUBMIT record in the WAL can be submitted again from its
\* payload without failing validation.
C27_LoggedIsValid ==
    [][call'.op = "submit_order" =>
         /\ call'.order = NoOrder => Appended = <<>>
         /\ \A k \in 1..Len(wal') :
               wal'[k].type = "ORDER_SUBMIT" => Resubmittable(wal'[k].data)]_vars

\* ---------------------------------------------------------------- caches
\* the best bid and offer of a book computed from its levels as they are
BboOf(view) ==
    [best_bid |-> IF DOMAIN view.bids = {} THEN None
                  ELSE Max(DOMAIN view.bids),
     best_bid_qty |-> IF DOMAIN view.bids = {} THEN 0
                      ELSE QueueRemaining(view.bids[Max(DOMAIN view.bids)]),
     best_ask |-> IF DOMAIN view.asks = {} THEN None
                  ELSE Min(DOMAIN view.asks),
     best_ask_qty |-> IF DOMAIN view.asks = {} THEN 0
                      ELSE QueueRemaining(view.asks[Min(DOMAIN view.asks)])]

\* C28: BBO cache coherence.  For every book, the dirty flag is set or the
\* cached BBO is the BBO computed from the book as it is, so that get_bbo
\* never returns a stale BBO.
C28_BboCoherent ==
    \A i \in 1..Len(order_books) :
        \/ order_books[i].bbo_dirty
        \/ LET bbo == BboOf(BookView(order_books[i], objs))
               cached == order_books[i].cached_bbo
           IN /\ cached.best_bid = bbo.best_bid
              /\ cached.best_bid_qty = bbo.best_bid_qty
              /\ cached.best_ask = bbo.best_ask
              /\ cached.best_ask_qty = bbo.best_ask_qty

\* the places <<side, price, position>> of a book where the handle h is
\* queued
PlacesOf(book, h) ==
    UNION {{<<"buy", p, i>> : i \in {j \in 1..Len(book.bids[p]) :
                                        book.bids[p][j] = h}} :
             p \in DOMAIN book.bids}
      \cup UNION {{<<"sell", p, i>> : i \in {j \in 1..Len(book.asks[p]) :
                                                book.asks[p][j] = h}} :
                    p \in DOMAIN book.asks}

\* C29: index and level consistency.  In every book, an order is in the id
\* index exactly when it is in one queue of that book, at one position, and
\* that queue is on the side and at the price the order records.
C29_IndexMatchesLevels ==
    \A i \in 1..Len(order_books) :
        LET book == order_books[i]
        IN /\ \A id \in DOMAIN book.orders :
                LET h == book.orders[id]
                IN /\ objs[h].order_id = id
                   /\ \E pl \in PlacesOf(book, h) :
                         /\ PlacesOf(book, h) = {pl}
                         /\ pl[1] = objs[h].side
                         /\ pl[2] = objs[h].price
           /\ \A h \in QueueHandles(book.bids) \cup QueueHandles(book.asks) :
                \E id \in DOMAIN book.orders : book.orders[id] = h

\* cancel_order has taken one order out of a book whose index and levels
\* still hold another
C29_Witness ==
    /\ call.op = "cancel_order"
    /\ response.status = "cancelled"
    /\ \E i \in 1..Len(order_books) :
          /\ order_books[i].symbol = response.symbol
          /\ DOMAIN order_books[i].orders # {}
          /\ response.order_id \notin DOMAIN order_books[i].orders

\* C30: no empty level.  Every price key of every book has a queue that is
\* not empty: a level is removed as soon as a fill or a cancel empties it.
C30_NoEmptyLevel ==
    \A i \in 1..Len(order_books) :
        /\ \A p \in DOMAIN order_books[i].bids :
              order_books[i].bids[p] # <<>>
        /\ \A p \in DOMAIN order_books[i].asks :
              order_books[i].asks[p] # <<>>

\* cancel_order has cancelled the only order of its price level and the
\* level is gone
C30_Witness ==
    /\ call.op = "cancel_order"
    /\ response.status = "cancelled"
    /\ \E i \in 1..Len(order_books) :
          /\ order_books[i].symbol = response.symbol
          /\ response.price \notin
                DOMAIN OpposingSide(order_books[i],
                                    IF response.side = "buy" THEN "sell"
                                    ELSE "buy")

\* ------------------------------------------------------ the Order methods
\* OrderStatus
Statuses == {"pending", "open", "partial", "filled", "cancelled", "rejected",
             "partial_fill_cancelled"}

\* the filled quantities an order of quantity q can have in a status:
\* fill(0, p) leaves an order PARTIAL with nothing filled, reject() keeps
\* whatever was filled, cancel() refuses a FILLED order
FilledIn(status, q) ==
    CASE status \in {"pending", "open"} -> {0}
      [] status = "partial" -> 0..(q - 1)
      [] status = "partial_fill_cancelled" -> 1..(q - 1)
      [] status = "filled" -> {q}
      [] status = "rejected" -> 0..q
      [] OTHER -> 0..(q - 1)

\* the orders under test: LIMIT orders as Order.initialize leaves them, then
\* filled in part or whole and put in one of the statuses
SampleOrders ==
    UNION {{[initialize(Order("a"), "BTC-USDT", sd, "limit", q, p).order
                EXCEPT !.status = st, !.filled_qty = f,
                       !.remaining_qty = q - f]
              : f \in FilledIn(st, q)}
           : sd \in Sides, q \in Quantities, p \in Prices, st \in Statuses}

\* a call of order.fill(quantity, price) on the Order under test
Fill(quantity, price) ==
    /\ LET r == fill(sample.order, quantity, price)
       IN sample' = [order |-> r.order, before |-> sample.order,
                     op |-> "fill", quantity |-> quantity,
                     raised |-> r.raised]
    /\ UNCHANGED <<order_books, objs, wal, writable, write_errors,
                   trade_history,
                   trade_id_counter,
                   metrics, call, response, tasks, advanced_orders, conditional,
                   ring, threads, transfers>>

\* a call of order.cancel() on the Order under test
Cancel ==
    /\ LET r == cancel(sample.order)
       IN sample' = [order |-> r.order, before |-> sample.order,
                     op |-> "cancel", quantity |-> 0, raised |-> r.raised]
    /\ UNCHANGED <<order_books, objs, wal, writable, write_errors,
                   trade_history,
                   trade_id_counter,
                   metrics, call, response, tasks, advanced_orders, conditional,
                   ring, threads, transfers>>

\* a call of order.reject() on the Order under test
Reject ==
    /\ sample' = [order |-> reject(sample.order), before |-> sample.order,
                  op |-> "reject", quantity |-> 0, raised |-> ""]
    /\ UNCHANGED <<order_books, objs, wal, writable, write_errors,
                   trade_history,
                   trade_id_counter,
                   metrics, call, response, tasks, advanced_orders, conditional,
                   ring, threads, transfers>>

\* a call of order.reset() on the Order under test
Reset ==
    /\ sample' = [order |-> reset(sample.order), before |-> sample.order,
                  op |-> "reset", quantity |-> 0, raised |-> ""]
    /\ UNCHANGED <<order_books, objs, wal, writable, write_errors,
                   trade_history,
                   trade_id_counter,
                   metrics, call, response, tasks, advanced_orders, conditional,
                   ring, threads, transfers>>

FillAny == \E quantity \in 0..MaxFill, price \in Prices : Fill(quantity, price)

InitOrder ==
    /\ order_books = <<>>
    /\ objs = EmptyDict
    /\ wal = <<>>
    /\ writable = "line"
    /\ write_errors = 0
    /\ trade_history = <<>>
    /\ trade_id_counter = 0
    /\ metrics = [orders_processed |-> 0, trades_executed |-> 0,
                  total_volume |-> 0]
    /\ call = NoCall
    /\ response = NoResponse
    /\ tasks = <<>>
    /\ advanced_orders = EmptyDict
    /\ conditional = [registered |-> 0, promoted |-> <<>>]
    /\ sample \in {[NoSample EXCEPT !.order = o, !.before = o] :
                      o \in SampleOrders}
    /\ ring = RingBuffer(RingSize)
    /\ threads = [t \in Threads |-> Idle]
    /\ transfers = [pushed |-> <<>>, popped |-> <<>>]

NextOrder == FillAny \/ Cancel \/ Reject \/ Reset

SpecOrder == InitOrder /\ [][NextOrder]_vars

\* the statuses the specification calls terminal
Terminal == {"filled", "cancelled", "rejected", "partial_fill_cancelled"}

\* C33: Order.cancel() is forbidden from every terminal state.  Called on an
\* order that is FILLED, CANCELLED, REJECTED or PARTIAL_FILL_CANCELLED it
\* fails and leaves the status as it was; from PENDING, OPEN or PARTIAL it
\* sets the status to CANCELLED.
C33_CancelFromTerminal ==
    sample.op = "cancel" =>
        IF sample.before.status \in Terminal
        THEN /\ sample.raised # ""
             /\ sample.order.status = sample.before.status
        ELSE /\ sample.raised = ""
             /\ sample.order.status = "cancelled"

\* C34: Order.fill(qty, price) with qty above the remaining quantity fails
\* and leaves filled, remaining and status as they were; otherwise it adds
\* qty to filled, takes it from remaining, and sets the status to FILLED
\* exactly when remaining became 0, else to PARTIAL.
C34_Fill ==
    sample.op = "fill" =>
        IF sample.quantity > sample.before.remaining_qty
        THEN /\ sample.raised # ""
             /\ sample.order = sample.before
        ELSE /\ sample.raised = ""
             /\ sample.order.filled_qty
                  = sample.before.filled_qty + sample.quantity
             /\ sample.order.remaining_qty
                  = sample.before.remaining_qty - sample.quantity
             /\ sample.order.status
                  = IF sample.order.remaining_qty = 0 THEN "filled"
                    ELSE "partial"

\* fill was called with more than what remained, on an order that an
\* earlier fill had left PARTIAL
C34_Witness ==
    /\ sample.op = "fill"
    /\ sample.raised # ""
    /\ sample.before.status = "partial"
    /\ sample.quantity > sample.before.remaining_qty

\* ------------------------------------------------------------- RingBuffer
\* what the other variables are left as by a step of the ring buffer
RingFrame ==
    UNCHANGED <<order_books, objs, wal, writable, write_errors,
                   trade_history,
                   trade_id_counter,
                metrics, call, response, tasks, advanced_orders, conditional,
                sample>>

\* the pushes that have returned True or are under way
Pushing == {t \in Threads : threads[t].op = "push" /\ threads[t].pc # "idle"}

\* thread t calls push(item) and waits for the lock
PushCall(t, item) ==
    /\ threads[t].pc = "idle"
    /\ Len(transfers.pushed) + Cardinality(Pushing) < MaxPushed
    /\ threads' = [threads EXCEPT ![t] =
                     [Idle EXCEPT !.pc = "push_wait", !.op = "push",
                                  !.item = item]]
    /\ UNCHANGED <<ring, transfers>>
    /\ RingFrame

\* thread t enters the with self.lock block of push
PushEnter(t) ==
    /\ threads[t].pc = "push_wait"
    /\ can_acquire(ring)
    /\ ring' = [ring EXCEPT !.lock = t]
    /\ threads' = [threads EXCEPT ![t].pc = "push_check"]
    /\ UNCHANGED transfers
    /\ RingFrame

\* push lines 17-19: next_index, and return False when the buffer is full
PushCheck(t) ==
    /\ threads[t].pc = "push_check"
    /\ LET next_index == (ring.write_index + 1) % ring.size
       IN IF next_index = ring.read_index
          THEN /\ ring' = [ring EXCEPT !.lock = 0]
               /\ threads' = [threads EXCEPT ![t].pc = "idle",
                                             ![t].ok = FALSE]
          ELSE /\ ring' = ring
               /\ threads' = [threads EXCEPT ![t].pc = "push_store",
                                             ![t].next_index = next_index]
    /\ UNCHANGED transfers
    /\ RingFrame

\* push line 21: self.buffer[self.write_index] = item
PushStore(t) ==
    /\ threads[t].pc = "push_store"
    /\ ring' = [ring EXCEPT !.buffer[ring.write_index] = threads[t].item]
    /\ threads' = [threads EXCEPT ![t].pc = "push_advance"]
    /\ UNCHANGED transfers
    /\ RingFrame

\* push lines 22-23: self.write_index = next_index; return True
PushAdvance(t) ==
    /\ threads[t].pc = "push_advance"
    /\ ring' = [ring EXCEPT !.write_index = threads[t].next_index,
                            !.lock = 0]
    /\ threads' = [threads EXCEPT ![t].pc = "idle", ![t].ok = TRUE]
    /\ transfers' = [transfers EXCEPT !.pushed = Append(@, threads[t].item)]
    /\ RingFrame

\* thread t calls pop() and waits for the lock
PopCall(t) ==
    /\ threads[t].pc = "idle"
    /\ threads' = [threads EXCEPT ![t] =
                     [Idle EXCEPT !.pc = "pop_wait", !.op = "pop"]]
    /\ UNCHANGED <<ring, transfers>>
    /\ RingFrame

\* thread t enters the with self.lock block of pop
PopEnter(t) ==
    /\ threads[t].pc = "pop_wait"
    /\ can_acquire(ring)
    /\ ring' = [ring EXCEPT !.lock = t]
    /\ threads' = [threads EXCEPT ![t].pc = "pop_check"]
    /\ UNCHANGED transfers
    /\ RingFrame

\* pop lines 28-29: return None when the buffer is empty
PopCheck(t) ==
    /\ threads[t].pc = "pop_check"
    /\ IF ring.read_index = ring.write_index
       THEN /\ ring' = [ring EXCEPT !.lock = 0]
            /\ threads' = [threads EXCEPT ![t].pc = "idle", ![t].ok = FALSE]
       ELSE /\ ring' = ring
            /\ threads' = [threads EXCEPT ![t].pc = "pop_read"]
    /\ UNCHANGED transfers
    /\ RingFrame

\* pop line 31: item = self.buffer[self.read_index]
PopRead(t) ==
    /\ threads[t].pc = "pop_read"
    /\ threads' = [threads EXCEPT ![t].pc = "pop_advance",
                                  ![t].item = ring.buffer[ring.read_index]]
    /\ UNCHANGED <<ring, transfers>>
    /\ RingFrame

\* pop lines 32-33: self.read_index advances; return item
PopAdvance(t) ==
    /\ threads[t].pc = "pop_advance"
    /\ ring' = [ring EXCEPT !.read_index = (ring.read_index + 1) % ring.size,
                            !.lock = 0]
    /\ threads' = [threads EXCEPT ![t].pc = "idle", ![t].ok = TRUE]
    /\ transfers' = [transfers EXCEPT !.popped = Append(@, threads[t].item)]
    /\ RingFrame

NextRing ==
    \E t \in Threads :
        \/ \E item \in Items : PushCall(t, item)
        \/ PushEnter(t) \/ PushCheck(t) \/ PushStore(t) \/ PushAdvance(t)
        \/ PopCall(t) \/ PopEnter(t) \/ PopCheck(t) \/ PopRead(t)
        \/ PopAdvance(t)

SpecRing == Init /\ [][NextRing]_vars

\* the items the buffer holds: those pushed and not yet popped
Held_items ==
    SubSeq(transfers.pushed, Len(transfers.popped) + 1,
           Len(transfers.pushed))

\* the slots from read_index up to write_index, in order
RECURSIVE Slots(_, _)
Slots(r, i) ==
    IF i = r.write_index THEN <<>>
    ELSE <<r.buffer[i]>> \o Slots(r, (i + 1) % r.size)

\* the items popped are the first of the items pushed, in the order the
\* pushes returned; at most size - 1 items are held; and when no thread is
\* inside a call the slots hold the items pushed and not yet popped
BoundedFifo ==
    /\ Len(transfers.popped) <= Len(transfers.pushed)
    /\ transfers.popped
         = SubSeq(transfers.pushed, 1, Len(transfers.popped))
    /\ Len(Held_items) <= ring.size - 1
    /\ ring.lock = 0 => Slots(ring, ring.read_index) = Held_items

\* a push that finds the buffer full returns False, a pop that finds it
\* empty returns None, and neither changes the buffer; a push that finds
\* room and a pop that finds an item go on
FullAndEmpty ==
    \A t \in Threads :
        /\ PushCheck(t) =>
             IF Len(Held_items) = ring.size - 1
             THEN /\ threads'[t].pc = "idle" /\ ~threads'[t].ok
                  /\ ring'.buffer = ring.buffer
                  /\ ring'.read_index = ring.read_index
                  /\ ring'.write_index = ring.write_index
             ELSE threads'[t].pc = "push_store"
        /\ PopCheck(t) =>
             IF Held_items = <<>>
             THEN /\ threads'[t].pc = "idle" /\ ~threads'[t].ok
                  /\ ring'.buffer = ring.buffer
                  /\ ring'.read_index = ring.read_index
                  /\ ring'.write_index = ring.write_index
             ELSE threads'[t].pc = "pop_read"

\* C40: RingBuffer is a bounded FIFO under concurrent use.  With any
\* interleaving of push and pop calls from several threads, every item whose
\* push returned True is returned by pop once and in the order the pushes
\* succeeded, the buffer never holds more than size - 1 items, push on a full
\* buffer returns False and pop on an empty buffer returns None, each
\* leaving the contents as they were.
C40_BoundedFifo == []BoundedFifo /\ [][FullAndEmpty]_vars

\* the indices have wrapped around, items have been popped, and a thread
\* waits for the lock that another holds inside push
C40_Witness ==
    /\ transfers.popped # <<>>
    /\ ring.write_index < ring.read_index
    /\ \E t, u \in Threads :
          /\ threads[t].pc \in {"push_wait", "pop_wait"}
          /\ ring.lock = u
          /\ threads[u].pc \in {"push_store", "push_advance"}

\* ------------------------------------------------------ conditional orders
\* AdvancedOrderType
AdvancedOrderTypes == {"stop_loss", "stop_limit", "take_profit"}

\* the id submit_advanced_order makes up when order_data has none
GenAdvId == "ADV-1"

\* AdvancedOrder.__init__; serial tells the objects apart, as their
\* identity does in Python
AdvancedOrder(serial, order_id, symbol, side, quantity, order_type, trigger_price, limit_price) ==
    [serial |-> serial, order_id |-> order_id, symbol |-> symbol,
     side |-> side, quantity |-> quantity, order_type |-> order_type,
     trigger_price |-> trigger_price, limit_price |-> limit_price,
     activated |-> FALSE]

\* AdvancedOrder.check_trigger: the answer, and the order with activated set
\* to it
check_trigger(o, current_price) ==
    IF o.activated THEN [order |-> o, trigger |-> FALSE]
    ELSE LET trigger ==
               IF o.side = "buy"
               THEN IF o.order_type \in {"stop_loss", "stop_limit"}
                    THEN current_price <= o.trigger_price
                    ELSE current_price >= o.trigger_price
               ELSE IF o.order_type \in {"stop_loss", "stop_limit"}
                    THEN current_price >= o.trigger_price
                    ELSE current_price <= o.trigger_price
         IN [order |-> [o EXCEPT !.activated = trigger], trigger |-> trigger]

\* AdvancedOrder.to_limit_order: the order_data handed to submit_order; it
\* has no order_id, and a limit_price of zero is falsy
to_limit_order(o) ==
    [symbol |-> o.symbol,
     order_type |-> IF o.order_type = "stop_limit" THEN "limit" ELSE "market",
     side |-> o.side, quantity |-> o.quantity,
     price |-> IF o.limit_price # None /\ o.limit_price # 0
               THEN o.limit_price ELSE None,
     order_id |-> NoId]

\* MatchingEngine.submit_advanced_order on the registry: an order_type
\* outside AdvancedOrderType raises ValueError, which is answered with
\* {"error", "status": "rejected"} and no order_id; side, quantity and the
\* prices are stored as they come, a falsy limit_price as None
submit_advanced_order(registry, serial, order_data) ==
    IF order_data.order_type \notin AdvancedOrderTypes
    THEN [advanced_orders |-> registry, stored |-> FALSE,
          response |-> [NoResponse EXCEPT
                          !.status = "rejected",
                          !.error = "not a valid AdvancedOrderType"]]
    ELSE LET advanced_order ==
               AdvancedOrder(serial,
                   IF order_data.order_id = NoId THEN GenAdvId
                   ELSE order_data.order_id,
                   order_data.symbol, order_data.side, order_data.quantity,
                   order_data.order_type, order_data.trigger_price,
                   IF order_data.limit_price \in {None, FalsyPrice}
                   THEN None ELSE order_data.limit_price)
             list == IF order_data.symbol \in DOMAIN registry
                     THEN registry[order_data.symbol] ELSE <<>>
         IN [advanced_orders |->
                Put(registry, order_data.symbol,
                    Append(list, advanced_order)),
             stored |-> TRUE,
             response |-> [NoResponse EXCEPT
                             !.order_id = advanced_order.order_id,
                             !.status = "pending",
                             !.order_type = advanced_order.order_type,
                             !.symbol = advanced_order.symbol,
                             !.side = advanced_order.side,
                             !.quantity = advanced_order.quantity]]

\* check_advanced_orders, the for loop: w carries the engine, the orders
\* kept so far and the submissions made so far
RECURSIVE CheckLoop(_, _, _)
CheckLoop(w, orders, current_price) ==
    IF orders = <<>> THEN w
    ELSE Only({
           CheckLoop(
             IF c.trigger
             THEN Only({[w EXCEPT
                           !.eng = r.eng,
                           !.submissions =
                               Append(@, [serial |-> c.order.serial,
                                          order_data |-> to_limit_order(c.order),
                                          response |-> r.response])]
                        : r \in {submit_order(w.eng, to_limit_order(c.order))}})
             ELSE [w EXCEPT !.remaining_orders = Append(@, c.order)],
             Tail(orders), current_price)
           : c \in {check_trigger(Head(orders), current_price)}})

\* a check_advanced_orders that leaves the triggered orders in the registry
check_advanced_orders_keeps(e, registry, symbol, current_price) ==
    IF symbol \notin DOMAIN registry
    THEN [eng |-> e, advanced_orders |-> registry, submissions |-> <<>>]
    ELSE Only({[eng |-> w.eng,
                advanced_orders |->
                    Put(registry, symbol,
                        [i \in 1..Len(registry[symbol]) |->
                            check_trigger(registry[symbol][i],
                                          current_price).order]),
                submissions |-> w.submissions]
               : w \in {CheckLoop([eng |-> e, remaining_orders |-> <<>>,
                                   submissions |-> <<>>],
                                  registry[symbol], current_price)}})

\* MatchingEngine.check_advanced_orders(symbol, current_price)
check_advanced_orders(e, registry, symbol, current_price) ==
    IF symbol \notin DOMAIN registry
    THEN [eng |-> e, advanced_orders |-> registry, submissions |-> <<>>]
    ELSE Only({[eng |-> w.eng,
                advanced_orders |-> Put(registry, symbol, w.remaining_orders),
                submissions |-> w.submissions]
               : w \in {CheckLoop([eng |-> e, remaining_orders |-> <<>>,
                                   submissions |-> <<>>],
                                  registry[symbol], current_price)}})

\* the order_data dicts handed to submit_advanced_order: one unit, with and
\* without limit_price, one order_type outside AdvancedOrderType, and a
\* stop_loss whose side is spelled with a capital, which
\* submit_advanced_order stores as given
AdvancedRequests ==
    [symbol : BookSymbols, side : Sides, quantity : {1},
     order_type : AdvancedOrderTypes \cup {"trailing_stop"},
     trigger_price : Prices, limit_price : {None, 1}, order_id : {NoId}]
    \cup [symbol : BookSymbols, side : {"Buy"}, quantity : {1},
          order_type : {"stop_loss"}, trigger_price : Prices,
          limit_price : {None}, order_id : {NoId}]

\* a call of submit_advanced_order(order_data)
SubmitAdvanced(order_data) ==
    /\ conditional.registered < MaxRegistered
    /\ LET r == submit_advanced_order(advanced_orders,
                                      conditional.registered + 1, order_data)
       IN /\ advanced_orders' = r.advanced_orders
          /\ conditional' = [conditional EXCEPT !.registered =
                                IF r.stored THEN @ + 1 ELSE @]
          /\ response' = r.response
    /\ call' = [NoCall EXCEPT !.op = "submit_advanced_order"]
    /\ UNCHANGED <<order_books, objs, wal, writable, write_errors,
                   trade_history,
                   trade_id_counter,
                   metrics, tasks, sample, ring, threads, transfers>>

\* a call of check_advanced_orders(symbol, current_price)
CheckAdvanced(symbol, current_price) ==
    /\ LET r == check_advanced_orders(Engine, advanced_orders, symbol,
                                      current_price)
       IN /\ Becomes(r.eng)
          /\ advanced_orders' = r.advanced_orders
          /\ conditional' = [conditional EXCEPT
                               !.promoted = @ \o r.submissions]
    /\ call' = [NoCall EXCEPT !.op = "check_advanced_orders",
                              !.order_id = symbol,
                              !.before = BookViews(order_books, objs)]
    /\ response' = NoResponse
    /\ UNCHANGED <<tasks, sample, ring, threads, transfers>>

SubmitAdvancedAny == \E d \in AdvancedRequests : SubmitAdvanced(d)
CheckAdvancedAny ==
    \E symbol \in BookSymbols, current_price \in Prices :
        CheckAdvanced(symbol, current_price)

NextAdvanced == SubmitAdvancedAny \/ CheckAdvancedAny

SpecAdvanced == Init /\ [][NextAdvanced]_vars

\* the conditional orders registered for a symbol, in registration order
Registry(symbol) ==
    IF symbol \in DOMAIN advanced_orders THEN advanced_orders[symbol]
    ELSE <<>>

\* the submit_order calls made by the step
Promotions ==
    SubSeq(conditional'.promoted, Len(conditional.promoted) + 1,
           Len(conditional'.promoted))

\* the trigger condition by side and kind, as the specification tables it
Triggers(o, last_price) ==
    \/ /\ o.side = "buy"
       /\ o.order_type \in {"stop_loss", "stop_limit"}
       /\ last_price <= o.trigger_price
    \/ /\ o.side = "buy"
       /\ o.order_type = "take_profit"
       /\ last_price >= o.trigger_price
    \/ /\ o.side = "sell"
       /\ o.order_type \in {"stop_loss", "stop_limit"}
       /\ last_price >= o.trigger_price
    \/ /\ o.side = "sell"
       /\ o.order_type = "take_profit"
       /\ last_price <= o.trigger_price

\* C31: conditional promotion.  When check_advanced_orders runs for a symbol
\* and price, the entries whose trigger condition holds leave the registry
\* and each is promoted to one submission, in registry order: a LIMIT at
\* limit_price for STOP_LIMIT, a MARKET order (no price) for STOP_LOSS and
\* TAKE_PROFIT; the other entries stay in the registry in their order.
C31_Promotion ==
    [][\A symbol \in BookSymbols, price \in Prices :
         CheckAdvanced(symbol, price) =>
           LET hit == SelectSeq(Registry(symbol),
                                LAMBDA o : Triggers(o, price))
               kept == SelectSeq(Registry(symbol),
                                 LAMBDA o : ~Triggers(o, price))
           IN /\ symbol \in DOMAIN advanced_orders =>
                    advanced_orders'[symbol] = kept
              /\ Len(Promotions) = Len(hit)
              /\ \A k \in 1..Len(hit) :
                    LET d == Promotions[k].order_data
                    IN /\ Promotions[k].serial = hit[k].serial
                       /\ d.symbol = hit[k].symbol
                       /\ d.side = hit[k].side
                       /\ d.quantity = hit[k].quantity
                       /\ IF hit[k].order_type = "stop_limit"
                          THEN /\ d.order_type = "limit"
                               /\ d.price = hit[k].limit_price
                          ELSE /\ d.order_type = "market"
                               /\ d.price = None]_vars

\* the conditional order with its side read as the BUY or SELL it spells,
\* as submit_order reads it when the order is promoted (line 125)
Sided(o) == [o EXCEPT !.side = lower(@)]

\* C32: trigger condition.  For every conditional order that is not yet
\* activated, check_trigger(last_price) is true exactly when: BUY with
\* STOP_LOSS or STOP_LIMIT and last_price <= trigger; BUY with TAKE_PROFIT
\* and last_price >= trigger; SELL with STOP_LOSS or STOP_LIMIT and
\* last_price >= trigger; SELL with TAKE_PROFIT and last_price <= trigger.
C32_TriggerCondition ==
    [][\A symbol \in BookSymbols, price \in Prices :
         CheckAdvanced(symbol, price) =>
           /\ \A i \in 1..Len(Registry(symbol)) :
                 LET o == Registry(symbol)[i]
                 IN ~o.activated =>
                      (check_trigger(o, price).trigger
                         <=> Triggers(Sided(o), price))
           /\ {Promotions[k].serial : k \in 1..Len(Promotions)}
                = {Registry(symbol)[i].serial :
                     i \in {j \in 1..Len(Registry(symbol)) :
                              Triggers(Sided(Registry(symbol)[j]),
                                       price)}}]_vars

\* the serials of the conditional orders in the registry, and of those
\* promoted
InRegistry ==
    UNION {{advanced_orders[s][i].serial : i \in 1..Len(advanced_orders[s])}
             : s \in DOMAIN advanced_orders}
PromotedSerials ==
    {conditional.promoted[k].serial : k \in 1..Len(conditional.promoted)}

\* C37: a conditional order is promoted at most once.  Over any sequence of
\* submit_advanced_order and check_advanced_orders calls, each registered
\* conditional order has caused at most one submit_order call, and it is in
\* the registry exactly as long as it has not been promoted.
C37_PromotedOnce ==
    /\ \A j, k \in 1..Len(conditional.promoted) :
          conditional.promoted[j].serial = conditional.promoted[k].serial
            => j = k
    /\ \A n \in 1..conditional.registered :
          n \in InRegistry <=> n \notin PromotedSerials
    /\ \A s \in DOMAIN advanced_orders :
          \A i, j \in 1..Len(advanced_orders[s]) :
             advanced_orders[s][i].serial = advanced_orders[s][j].serial
               => i = j

\* two conditional orders have been promoted, by one check_advanced_orders
\* or two
C37_Witness ==
    /\ call.op = "check_advanced_orders"
    /\ Len(conditional.promoted) >= 2
    /\ InRegistry = {}

\* ------------------------------------------------------ rejected submissions
\* LIMIT submissions that come with the id of the first or second order
\* placed on the book, or with none
ReusedIdRequests ==
    {[d EXCEPT !.order_id = id] :
        d \in {u \in BookRequests : u.order_type = "limit"},
        id \in {NoId, RestingIds[1], RestingIds[2]}}

SubmitReused == \E d \in ReusedIdRequests : SubmitOrder(d)

NextReject == AddAny \/ SubmitReused

SpecReject == Init /\ [][NextReject]_vars

\* C35: a rejected submission has no effect on liquidity.  Whenever
\* submit_order returns a response with status rejected, no trade was added
\* to the trade history during the call and every book holds the resting
\* orders it held before, with their quantities, statuses and positions.
C35_RejectedHasNoEffect ==
    (call.op = "submit_order" /\ response.status = "rejected") =>
        /\ call.trades = <<>>
        /\ BookViews(order_books, objs) = call.before

\* a LIMIT order that crosses a resting order and carries the id of another
\* resting order has been rejected
C35_Witness ==
    /\ Validated
    /\ response.status = "rejected"
    /\ call.order.order_id \in DOMAIN BookBefore.orders
    /\ \E p \in CrossingPrices(call.order, BookBefore) :
          \E i \in 1..Len(OppositeOf(BookBefore, call.order.side)[p]) :
             OppositeOf(BookBefore, call.order.side)[p][i].order_id
               # call.order.order_id

\* the trades of the submission that name the given order as their maker
MakerTrades(id) ==
    SelectSeq(call.trades, LAMBDA t : t.maker_order_id = id)

\* C36: no overfill.  Every trade in the history has a quantity above 0,
\* the trades of a submission sum to at most the taker's quantity, and the
\* trades that name a resting order as maker sum to at most that order's
\* quantity.
C36_NoOverfill ==
    /\ \A k \in 1..Len(trade_history) : trade_history[k].quantity > 0
    /\ Validated =>
         /\ SumQty(call.trades) <= call.order.quantity
         /\ \A id \in DOMAIN BookBefore.orders :
              SumQty(MakerTrades(id)) <= BookBefore.orders[id].quantity

\* an order of two units was submitted against an opposing resting order of
\* one unit within its limit, and the submission is over
C36_Witness ==
    /\ Validated
    /\ call.order.quantity = 2
    /\ \E p \in CrossingPrices(call.order, BookBefore) :
          OppositeOf(BookBefore, call.order.side)[p][1].remaining_qty = 1
    /\ response.status # ""

\* what a TRADE_EXECUTE record and a trade of the history are compared on
TradeKey(t) ==
    [trade_id |-> t.trade_id, price |-> t.price, quantity |-> t.quantity,
     maker_order_id |-> t.maker_order_id,
     taker_order_id |-> t.taker_order_id]

\* the keys of the TRADE_EXECUTE records of the log w, in log order
LoggedKeys(w) ==
    [k \in 1..Len(LoggedTrades(w)) |-> TradeKey(LoggedTrades(w)[k].data)]

\* the keys of the trades of a trade history, in order
HistoryKeys(history) == [k \in 1..Len(history) |-> TradeKey(history[k])]

\* C38: trade log correspondence.  While the log file can be written, the
\* TRADE_EXECUTE records of the WAL are, in order, the trades of the trade
\* history: same trade_id, price, quantity, maker and taker ids.
C38_TradeLog ==
    (writable = "line" /\ write_errors = 0) =>
        LoggedKeys(wal) = HistoryKeys(trade_history)

\* an order was submitted against opposing liquidity within its limit, its
\* ORDER_SUBMIT record is in the log, and the submission is over
C38_Witness ==
    /\ Validated
    /\ Tradable(call.order, BookBefore)
    /\ wal # <<>>
    /\ response.status # ""

\* between calls of submit_order the trade counters are those of the trade
\* history
MetricsAgree ==
    /\ metrics.trades_executed = Len(trade_history)
    /\ metrics.total_volume = SumQty(trade_history)

\* no step takes a counter down
MetricsGrow ==
    /\ metrics'.orders_processed >= metrics.orders_processed
    /\ metrics'.trades_executed >= metrics.trades_executed
    /\ metrics'.total_volume >= metrics.total_volume

\* C39: metrics agree with the trade history.  The counters orders_processed,
\* trades_executed and total_volume never decrease, and whenever no
\* submit_order is in progress trades_executed is the number of trades in
\* the trade history and total_volume is the sum of their quantities.
C39_MetricsAgree == []MetricsAgree /\ [][MetricsGrow]_vars

\* a submission has reached update_metrics: it is counted in
\* orders_processed
C39_Witness ==
    /\ call.op = "submit_order"
    /\ metrics.orders_processed > 0

====
